---- MODULE Spec2Model ----
(***************************************************************************)
(* A model of the ContinuousC graph library (checked configuration, i.e.   *)
(* cfg(any(not(feature = "unsafe"), debug_assertions))): the generation    *)
(* counter, the arena Graph<T>, the handle Ref<T> and the keyed graphs     *)
(* BTreeGraph<K,V> / HashGraph<K,V>.                                       *)
(*                                                                         *)
(* A slot address is the pair <<arena id, position>>: typed_arena never    *)
(* moves or frees a slot, so the position in allocation order identifies   *)
(* the location.  Option<T> is a sequence: <<>> is None, <<v>> is Some(v). *)
(* A panic is modelled by the flag of the result record; the state a       *)
(* panicking call leaves behind is the state at the panicking statement.   *)
(***************************************************************************)
EXTENDS Integers, Sequences, FiniteSets, TLC

VARIABLES
    GENERATION,  \* the process-wide generation counter (gen.rs)
    graphs,      \* arena id -> [nodes: the slots in allocation order, gen]
    index,       \* the keyed graph's index: key -> handle
    promised,    \* history: <<handle, key>> of the promised, not yet created
    given,       \* history of the cycle scenario: handle -> payload created
    kind,        \* which keyed graph arena A and the index form: btree or hash
    refBy,       \* the program's RefBy<K,V>, once it has one: <<>> or <<r>>
    optRefBy,    \* the program's OptRefBy<K,V>, once it has one
    refMap,      \* the program's RefMap<K,V>: key -> handle
    optRefMap,   \* the program's OptRefMap<K,V>: key -> Option of a handle
    copy,        \* the index of the deserialized keyed graph (its arena is B)
    resolved,    \* the keys of the deserialized graph whose payload was resolved
    threads,     \* thread -> its borrow of the keyed graph and its references
    last         \* history: the last call, its arguments and its outcome

\* The variables of the reference objects and of the deserialized graph.
refVars == <<refBy, optRefBy, refMap, optRefMap, copy, resolved, threads>>

vars == <<GENERATION, graphs, index, promised, given, kind, refVars, last>>

\* ---------------------------------------------------------------- bounds
\* Slots the arena under test may allocate in a run.
MaxSlots == 2
\* Slots the other arena (the source of foreign handles) may allocate.
OtherSlots == 1
\* Nodes of the cycle scenario.
MaxNodes == 3
\* Slots the keyed graph may allocate in a run.
MaxKeyedSlots == 3

\* The arena the calls are made on, and another arena of the same process.
A == "a"
B == "b"
ArenaIds == {A, B}
Keys == {1, 2}
Values == {"v1", "v2"}

None == <<>>
Some(v) == <<v>>

\* ------------------------------------------------------------------ gen.rs
\* Variant: the counter starts at the value reserved for invalid handles.
GenerationInit_Reserved == 1 - 1

\* static GENERATION: AtomicU64 = AtomicU64::new(1)
GenerationInit == 1

Gen_invalid == 0

Gen_is_invalid(g) == g = 0

\* Variant: the derived comparison, under which the zero tag equals itself.
Gen_eq_Derived(self, other) == self = other

Gen_eq(self, other) == self # 0 /\ self = other

\* --------------------------------------------------------------- reference.rs
Ref_new(value, gen) == [value |-> value, gen |-> gen]

\* NonNull::dangling(): an address that is no slot of any arena.
DanglingAddr == <<"-", 0>>

Ref_dangling == [value |-> DanglingAddr, gen |-> Gen_invalid]

Ref_clone(self) == [value |-> self.value, gen |-> self.gen]

Ref_is_invalid(r) == Gen_is_invalid(r.gen)

Ref_eq(self, other) == Gen_eq(self.gen, other.gen) /\ self.value = other.value

\* Whether the address is a slot some arena has allocated.
IsSlot(gs, addr) ==
    /\ addr[1] \in DOMAIN gs
    /\ addr[2] \in 1..Len(gs[addr[1]].nodes)

SlotAt(gs, addr) == gs[addr[1]].nodes[addr[2]]

WriteSlot(gs, addr, opt) ==
    [gs EXCEPT ![addr[1]].nodes[addr[2]] = opt]

Ref_try_get_unchecked(gs, r) == SlotAt(gs, r.value)

Ref_try_get_unchecked_mut(gs, r) == SlotAt(gs, r.value)

\* Variant: taking the content of an arena's newest slot gives the slot back.
Ref_try_remove_unchecked_Frees(gs, r) ==
    [gs |-> IF r.value[2] = Len(gs[r.value[1]].nodes)
            THEN [gs EXCEPT ![r.value[1]].nodes = SubSeq(@, 1, Len(@) - 1)]
            ELSE WriteSlot(gs, r.value, None),
     ret |-> SlotAt(gs, r.value)]

\* Option::take: the slot becomes None, the old content is returned.
Ref_try_remove_unchecked(gs, r) ==
    [gs |-> WriteSlot(gs, r.value, None), ret |-> SlotAt(gs, r.value)]

\* Option::replace: the slot becomes Some(value), the old content is returned.
Ref_try_replace_unchecked(gs, r, value) ==
    [gs |-> WriteSlot(gs, r.value, Some(value)), ret |-> SlotAt(gs, r.value)]

\* ------------------------------------------------------------------ graph.rs
\* The result of a call: the arenas afterwards, the handle or the values it
\* returned, and whether it panicked.
Res(gs, retH, retV, panic) ==
    [gs |-> gs, retH |-> retH, retV |-> retV, panic |-> panic]

\* Variant: the new slot is put first and the earlier slots move up, as in a
\* vector that reallocates.
Arena_alloc_Moves(gs, a, opt) ==
    [gs |-> [gs EXCEPT ![a].nodes = <<opt>> \o @],
     addr |-> <<a, Len(gs[a].nodes) + 1>>]

\* Arena::alloc: the new slot is appended; earlier slots keep their address.
Arena_alloc(gs, a, opt) ==
    [gs |-> [gs EXCEPT ![a].nodes = Append(@, opt)],
     addr |-> <<a, Len(gs[a].nodes) + 1>>]

\* Variant: the counter is read and left as it was.
Gen_new_NoAdd(counter) == [gen |-> counter, counter |-> counter]

\* Gen::new: GENERATION.fetch_add(1), one atomic read-modify-write; the tag is
\* the value read.
Gen_new(counter) == [gen |-> counter, counter |-> counter + 1]

\* Variant: every arena takes the first generation.
Graph_new_Reuses(counter) ==
    [graph |-> [nodes |-> <<>>, gen |-> GenerationInit], counter |-> counter + 1]

\* Graph::new: the arena is empty and takes GENERATION.fetch_add(1).
Graph_new(counter) ==
    [graph |-> [nodes |-> <<>>, gen |-> counter], counter |-> counter + 1]

\* Variant: the value overwrites the arena's newest slot when there is one.
Graph_insert_Overwrites(gs, a, value) ==
    LET n == Len(gs[a].nodes)
    IN  IF n = 0
        THEN Res(Arena_alloc(gs, a, Some(value)).gs,
                 Some(Ref_new(Arena_alloc(gs, a, Some(value)).addr, gs[a].gen)),
                 <<>>, FALSE)
        ELSE Res(WriteSlot(gs, <<a, n>>, Some(value)),
                 Some(Ref_new(<<a, n>>, gs[a].gen)), <<>>, FALSE)

\* Variant: an empty slot is used again before a new one is allocated.
Graph_insert_Recycles(gs, a, value) ==
    LET free == {i \in 1..Len(gs[a].nodes) : gs[a].nodes[i] = None}
        i == CHOOSE j \in free : \A k \in free : j <= k
    IN  IF free = {}
        THEN Res(Arena_alloc(gs, a, Some(value)).gs,
                 Some(Ref_new(Arena_alloc(gs, a, Some(value)).addr, gs[a].gen)),
                 <<>>, FALSE)
        ELSE Res(WriteSlot(gs, <<a, i>>, Some(value)),
                 Some(Ref_new(<<a, i>>, gs[a].gen)), <<>>, FALSE)

Graph_insert(gs, a, value) ==
    LET node == Arena_alloc(gs, a, Some(value))
    IN  Res(node.gs, Some(Ref_new(node.addr, gs[a].gen)), <<>>, FALSE)

\* Variant: the handle names the arena's first slot, not the new one.
Graph_promise_FirstSlot(gs, a) ==
    LET node == Arena_alloc(gs, a, None)
    IN  Res(node.gs, Some(Ref_new(<<a, 1>>, gs[a].gen)), <<>>, FALSE)

Graph_promise(gs, a) ==
    LET node == Arena_alloc(gs, a, None)
    IN  Res(node.gs, Some(Ref_new(node.addr, gs[a].gen)), <<>>, FALSE)

\* Variant: the value is never stored.
Graph_create_NoStore(gs, a, node, value) ==
    IF ~Gen_eq(gs[a].gen, node.gen)
    THEN Res(gs, None, <<>>, TRUE)
    ELSE Res(gs, None, <<>>, SlotAt(gs, node.value) # None)

\* Variant: the assertion that the slot was empty is missing.
Graph_create_NoOccupiedCheck(gs, a, node, value) ==
    IF ~Gen_eq(gs[a].gen, node.gen)
    THEN Res(gs, None, <<>>, TRUE)
    ELSE LET r == Ref_try_replace_unchecked(gs, node, value)
         IN  Res(r.gs, None, <<>>, FALSE)

Graph_create(gs, a, node, value) ==
    IF ~Gen_eq(gs[a].gen, node.gen)
    THEN Res(gs, None, <<>>, TRUE)
    ELSE LET r == Ref_try_replace_unchecked(gs, node, value)
         IN  Res(r.gs, None, <<>>, r.ret # None)

\* Variant: only the dangling handle is rejected, not a foreign one.
Graph_remove_NoGenCheck(gs, a, node) ==
    IF Gen_is_invalid(node.gen)
    THEN Res(gs, None, <<>>, TRUE)
    ELSE LET r == Ref_try_remove_unchecked(gs, node)
         IN  Res(r.gs, None, r.ret, r.ret = None)

\* Variant: the value is returned but the slot is not emptied.
Graph_remove_KeepsValue(gs, a, node) ==
    IF ~Gen_eq(gs[a].gen, node.gen)
    THEN Res(gs, None, <<>>, TRUE)
    ELSE LET r == Ref_try_get_unchecked(gs, node)
         IN  Res(gs, None, r, r = None)

Graph_remove(gs, a, node) ==
    IF ~Gen_eq(gs[a].gen, node.gen)
    THEN Res(gs, None, <<>>, TRUE)
    ELSE LET r == Ref_try_remove_unchecked(gs, node)
         IN  Res(r.gs, None, r.ret, r.ret = None)

\* Variant: the Option is handed out without the unwrap.
Graph_borrow_NoUnwrap(gs, a, node) ==
    IF ~Gen_eq(gs[a].gen, node.gen)
    THEN Res(gs, None, <<>>, TRUE)
    ELSE Res(gs, None, Ref_try_get_unchecked(gs, node), FALSE)

Graph_borrow(gs, a, node) ==
    IF ~Gen_eq(gs[a].gen, node.gen)
    THEN Res(gs, None, <<>>, TRUE)
    ELSE LET r == Ref_try_get_unchecked(gs, node)
         IN  Res(gs, None, r, r = None)

\* borrow_mut hands out &mut T; `write` is what the caller stores through it
\* (None: the caller only reads).
Graph_borrow_mut(gs, a, node, write) ==
    IF ~Gen_eq(gs[a].gen, node.gen)
    THEN Res(gs, None, <<>>, TRUE)
    ELSE LET r == Ref_try_get_unchecked_mut(gs, node)
         IN  IF r = None THEN Res(gs, None, <<>>, TRUE)
             ELSE IF write = None THEN Res(gs, None, r, FALSE)
             ELSE Res(WriteSlot(gs, node.value, write), None, r, FALSE)

\* Variant: the assertion checks the generations only, not the aliasing.
BorrowManyCheck_GenOnly(gs, a, nodes) ==
    \A i \in 1..Len(nodes) : Gen_eq(gs[a].gen, nodes[i].gen)

\* The assertion of borrow_many_mut: every handle carries the arena's
\* generation and differs from every earlier handle of the batch.
BorrowManyCheck(gs, a, nodes) ==
    \A i \in 1..Len(nodes) :
        /\ Gen_eq(gs[a].gen, nodes[i].gen)
        /\ \A j \in 1..(i - 1) : ~Ref_eq(nodes[j], nodes[i])

Graph_borrow_many_mut(gs, a, nodes) ==
    IF ~BorrowManyCheck(gs, a, nodes)
    THEN Res(gs, None, <<>>, TRUE)
    ELSE IF \E i \in 1..Len(nodes) : Ref_try_get_unchecked_mut(gs, nodes[i]) = None
    THEN Res(gs, None, <<>>, TRUE)
    ELSE Res(gs, None,
             [i \in 1..Len(nodes) |-> Ref_try_get_unchecked_mut(gs, nodes[i])[1]],
             FALSE)

\* ------------------------------------------------------- harness definitions
\* Every handle arena a has issued: one per slot, with the arena's generation.
Issued(gs, a) ==
    {Ref_new(<<a, i>>, gs[a].gen) : i \in 1..Len(gs[a].nodes)}

AllIssued(gs) == UNION {Issued(gs, a) : a \in DOMAIN gs}

\* The handles a caller may pass: every issued one, and the dangling one.
Handles(gs) == AllIssued(gs) \cup {Ref_dangling}

Occupied(gs, h) == IsSlot(gs, h.value) /\ SlotAt(gs, h.value) # None

\* What a handle names before a call: no slot at all, an occupied slot, a
\* slot promised and not yet created, or a slot that was cleared.
SlotState(gs, pr, h) ==
    IF ~IsSlot(gs, h.value) THEN "none"
    ELSE IF SlotAt(gs, h.value) # None THEN "occupied"
    ELSE IF \E p \in pr : p[1] = h THEN "promised"
    ELSE "cleared"

\* The record of the last call made: the operation, the graph it was made
\* on, its arguments, the state of its target before the call (pre), what it
\* returned and whether it panicked.
Call(op, g, key, hs, val, pre, r) ==
    [op |-> op, g |-> g, key |-> key, hs |-> hs, val |-> val, pre |-> pre,
     retH |-> r.retH, retV |-> r.retV, panic |-> r.panic]

NoCall ==
    [op |-> "init", g |-> A, key |-> None, hs |-> <<>>, val |-> None,
     pre |-> "none", retH |-> None, retV |-> <<>>, panic |-> FALSE]

EmptyIndex == [k \in {} |-> Ref_dangling]

\* The threads of the program; a thread that has borrowed no graph, holds no
\* reference to a node and is not constructing an arena.
Threads == {"t1", "t2"}
Idle == [access |-> "none", held |-> {}, pc |-> "idle", gen |-> 0]
NoThreads == [t \in Threads |-> Idle]

\* No reference object has been built, no graph has been deserialized and no
\* thread has started.
NoRefs ==
    /\ refBy = None
    /\ optRefBy = None
    /\ refMap = EmptyIndex
    /\ optRefMap = EmptyIndex
    /\ copy = EmptyIndex
    /\ resolved = {}
    /\ threads = NoThreads

\* Two arenas constructed one after the other.
InitGraphs ==
    LET g1 == Graph_new(GenerationInit)
        g2 == Graph_new(g1.counter)
    IN  [gs |-> [a \in ArenaIds |-> IF a = A THEN g1.graph ELSE g2.graph],
         counter |-> g2.counter]

\* ------------------------------------------------------ the arena alone
InitArena ==
    /\ GENERATION = InitGraphs.counter
    /\ graphs = InitGraphs.gs
    /\ index = EmptyIndex
    /\ promised = {}
    /\ given = <<>>
    /\ kind = "none"
    /\ NoRefs
    /\ last = NoCall

SlotBound(a) == IF a = A THEN MaxSlots ELSE OtherSlots

Insert(a, v) ==
    /\ Len(graphs[a].nodes) < SlotBound(a)
    /\ LET r == Graph_insert(graphs, a, v)
       IN  /\ graphs' = r.gs
           /\ last' = Call("insert", a, None, <<>>, Some(v), "none", r)
    /\ UNCHANGED <<GENERATION, index, promised, given, kind, refVars>>

Promise(a) ==
    /\ Len(graphs[a].nodes) < SlotBound(a)
    /\ LET r == Graph_promise(graphs, a)
       IN  /\ graphs' = r.gs
           /\ promised' = promised \cup {<<r.retH[1], None>>}
           /\ last' = Call("promise", a, None, <<>>, None, "none", r)
    /\ UNCHANGED <<GENERATION, index, given, kind, refVars>>

Create(a, h, v) ==
    /\ LET r == Graph_create(graphs, a, h, v)
       IN  /\ graphs' = r.gs
           /\ promised' = IF r.panic THEN promised
                          ELSE {p \in promised : p[1] # h}
           /\ last' = Call("create", a, None, <<h>>, Some(v),
                           SlotState(graphs, promised, h), r)
    /\ UNCHANGED <<GENERATION, index, given, kind, refVars>>

Remove(a, h) ==
    /\ LET r == Graph_remove(graphs, a, h)
       IN  /\ graphs' = r.gs
           /\ last' = Call("remove", a, None, <<h>>, None,
                           SlotState(graphs, promised, h), r)
    /\ UNCHANGED <<GENERATION, index, promised, given, kind, refVars>>

Borrow(a, h) ==
    /\ LET r == Graph_borrow(graphs, a, h)
       IN  /\ graphs' = r.gs
           /\ last' = Call("borrow", a, None, <<h>>, None,
                           SlotState(graphs, promised, h), r)
    /\ UNCHANGED <<GENERATION, index, promised, given, kind, refVars>>

BorrowMut(a, h, w) ==
    /\ LET r == Graph_borrow_mut(graphs, a, h, w)
       IN  /\ graphs' = r.gs
           /\ last' = Call("borrow_mut", a, None, <<h>>, w,
                           SlotState(graphs, promised, h), r)
    /\ UNCHANGED <<GENERATION, index, promised, given, kind, refVars>>

BorrowManyMut(a, hs) ==
    /\ LET r == Graph_borrow_many_mut(graphs, a, hs)
       IN  /\ graphs' = r.gs
           /\ last' = Call("borrow_many_mut", a, None, hs, None,
                           SlotState(graphs, promised, hs[1]), r)
    /\ UNCHANGED <<GENERATION, index, promised, given, kind, refVars>>

Writes == {None} \cup {Some(v) : v \in Values}

\* Arena B only allocates: it is there to issue handles foreign to A.
NextArena ==
    \/ \E a \in ArenaIds, v \in Values : Insert(a, v)
    \/ \E a \in ArenaIds : Promise(a)
    \/ \E h \in Handles(graphs), v \in Values : Create(A, h, v)
    \/ \E h \in Handles(graphs) : Remove(A, h)
    \/ \E h \in Handles(graphs) : Borrow(A, h)
    \/ \E h \in Handles(graphs), w \in Writes : BorrowMut(A, h, w)
    \/ \E h1 \in Handles(graphs), h2 \in Handles(graphs) :
          BorrowManyMut(A, <<h1, h2>>)

SpecArena == InitArena /\ [][NextArena]_vars

\* ---------------------------------------------------------- arena claims
HandleOps == {"create", "remove", "borrow", "borrow_mut", "borrow_many_mut"}

\* A call on arena c.g with a handle another arena issued.
ForeignCall(c, gs) ==
    /\ c.op \in HandleOps
    /\ \E i \in DOMAIN c.hs : c.hs[i] \in AllIssued(gs) \ Issued(gs, c.g)

\* A call on arena c.g all of whose handles that arena issued.
OwnCall(c, gs) ==
    /\ c.op \in HandleOps
    /\ \A i \in DOMAIN c.hs : c.hs[i] \in Issued(gs, c.g)

\* C1: every handle insert or promise returns carries the arena's tag, and for
\* every handle an arena issued, borrow and borrow_mut on that arena succeed
\* exactly when the handle's slot is occupied; they fail on a slot that is
\* promised and not created, and on one that was removed.
C1_BorrowIffOccupied ==
    /\ last.op \in {"insert", "promise"} =>
          /\ last.retH # None
          /\ Gen_eq(graphs[last.g].gen, last.retH[1].gen)
          /\ last.retH[1] \in Issued(graphs, last.g)
    /\ \A a \in ArenaIds : \A h \in Issued(graphs, a) :
          /\ ~Graph_borrow(graphs, a, h).panic <=> SlotAt(graphs, h.value) # None
          /\ ~Graph_borrow_mut(graphs, a, h, None).panic
                <=> SlotAt(graphs, h.value) # None
          /\ ~Graph_borrow(graphs, a, h).panic =>
                Graph_borrow(graphs, a, h).retV = SlotAt(graphs, h.value)
    /\ last.op \in {"borrow", "borrow_mut"} /\ OwnCall(last, graphs) =>
          /\ ~last.panic <=> last.pre = "occupied"
          /\ last.panic <=> last.pre \in {"promised", "cleared"}

\* A borrow of a removed slot has just failed while another slot is occupied.
C1_Witness ==
    /\ last.op = "borrow" /\ last.panic /\ last.pre = "cleared"
    /\ OwnCall(last, graphs)
    /\ \E h \in Issued(graphs, A) : ~Graph_borrow(graphs, A, h).panic

\* C3: promise returns a handle to a new empty slot, borrow of a handle that
\* is promised and not yet created fails, and after create(h, v) succeeded
\* borrow(h) succeeds and returns v.
C3_PromiseCreate ==
    /\ last.op = "promise" =>
          /\ last.retH # None /\ ~last.panic
          /\ last.retH[1].value = <<last.g, Len(graphs[last.g].nodes)>>
          /\ SlotAt(graphs, last.retH[1].value) = None
          /\ Graph_borrow(graphs, last.g, last.retH[1]).panic
    /\ \A p \in promised : Graph_borrow(graphs, p[1].value[1], p[1]).panic
    /\ last.op = "create" /\ ~last.panic =>
          /\ ~Graph_borrow(graphs, last.g, last.hs[1]).panic
          /\ Graph_borrow(graphs, last.g, last.hs[1]).retV = last.val

\* A promised slot has just been created and borrow returns the value.
C3_Witness ==
    /\ last.op = "create" /\ ~last.panic /\ last.pre = "promised"
    /\ Graph_borrow(graphs, last.g, last.hs[1]).retV = last.val

\* C6: create, remove, borrow, borrow_mut and borrow_many_mut panic when any
\* handle of the call was issued by another arena, and the call changes no
\* slot of either arena.
C6_ForeignRejected ==
    [][ForeignCall(last', graphs) => last'.panic /\ graphs' = graphs]_vars

\* A batch borrow on A with one handle of A and one of B, both occupied, failed.
C6_Witness ==
    /\ last.op = "borrow_many_mut" /\ last.panic /\ last.g = A
    /\ last.hs[1] \in Issued(graphs, A) /\ Occupied(graphs, last.hs[1])
    /\ last.hs[2] \in Issued(graphs, B) /\ Occupied(graphs, last.hs[2])

\* C7: create with a handle of the arena succeeds exactly when the slot was
\* empty (promised or removed), and a create that directly follows a
\* successful create of the same handle fails.
C7_CreateOnce ==
    /\ [](last.op = "create" /\ OwnCall(last, graphs) =>
            (~last.panic <=> last.pre \in {"promised", "cleared"}))
    /\ [][last'.op = "create" /\ OwnCall(last', graphs) =>
            /\ ~last'.panic <=> SlotAt(graphs, last'.hs[1].value) = None
            /\ (last.op = "create" /\ ~last.panic /\ last.hs = last'.hs
                   /\ last.g = last'.g) => last'.panic]_vars

\* A create on an occupied slot of the arena has just failed.
C7_Witness ==
    /\ last.op = "create" /\ last.panic /\ last.pre = "occupied"
    /\ OwnCall(last, graphs)

\* ------------------------------------------------------ the cycle scenario
\* graph.rs, test::cycle, for any number of nodes and any links: nodes are
\* promised from arena A and created, in any order, with a payload
\* Node {prev, next} of clones of promised handles.
Node(prev, next) == [prev |-> Ref_clone(prev), next |-> Ref_clone(next)]

InitCycle ==
    /\ GENERATION = InitGraphs.counter
    /\ graphs = InitGraphs.gs
    /\ index = EmptyIndex
    /\ promised = {}
    /\ given = <<>>
    /\ kind = "none"
    /\ NoRefs
    /\ last = NoCall

CyclePromise ==
    /\ Len(graphs[A].nodes) < MaxNodes
    /\ LET r == Graph_promise(graphs, A)
       IN  /\ graphs' = r.gs
           /\ given' = [h \in DOMAIN given \cup {r.retH[1]} |->
                          IF h \in DOMAIN given THEN given[h] ELSE None]
           /\ last' = Call("promise", A, None, <<>>, None, "none", r)
    /\ UNCHANGED <<GENERATION, index, promised, kind, refVars>>

CycleCreate(h, prev, next) ==
    /\ given[h] = None
    /\ LET r == Graph_create(graphs, A, h, Node(prev, next))
       IN  /\ graphs' = r.gs
           /\ given' = [given EXCEPT ![h] = Some(Node(prev, next))]
           /\ last' = Call("create", A, None, <<h>>, None, "promised", r)
    /\ UNCHANGED <<GENERATION, index, promised, kind, refVars>>

NextCycle ==
    \/ CyclePromise
    \/ \E h \in DOMAIN given, prev \in DOMAIN given, next \in DOMAIN given :
          CycleCreate(h, prev, next)

SpecCycle == InitCycle /\ [][NextCycle]_vars

\* The handle the i-th promise of arena A returned.
NthPromised(i) == Ref_new(<<A, i>>, graphs[A].gen)

\* C4: every promise returned a handle of its own; a created node borrows to
\* the payload it was created with, and every handle stored in it equals the
\* promised handle it was cloned from and, once that node is created,
\* dereferences to that node's payload.  With all nodes created, every stored
\* handle dereferences to exactly the node whose promise returned it.
C4_CycleLinks ==
    /\ Cardinality(DOMAIN given) = Len(graphs[A].nodes)
    /\ last.op = "create" => ~last.panic
    /\ \A h \in DOMAIN given :
          IF given[h] = None THEN Graph_borrow(graphs, A, h).panic
          ELSE LET n == Graph_borrow(graphs, A, h)
               IN  /\ ~n.panic
                   /\ n.retV = given[h]
                   /\ Ref_eq(n.retV[1].prev, given[h][1].prev)
                   /\ Ref_eq(n.retV[1].next, given[h][1].next)
                   /\ \A t \in {n.retV[1].prev, n.retV[1].next} :
                         /\ t \in DOMAIN given
                         /\ given[t] # None =>
                               /\ ~Graph_borrow(graphs, A, t).panic
                               /\ Graph_borrow(graphs, A, t).retV = given[t]

\* The ring of test::cycle: three nodes, next and prev chains closed.
C4_Witness ==
    /\ Len(graphs[A].nodes) >= 3
    /\ \A i \in 1..3 : given[NthPromised(i)] # None
    /\ LET a == NthPromised(1)
           b == NthPromised(2)
           c == NthPromised(3)
           at(h) == Graph_borrow(graphs, A, h).retV[1]
       IN  /\ Ref_eq(at(a).next, b) /\ Ref_eq(at(b).next, c) /\ Ref_eq(at(c).next, a)
           /\ Ref_eq(at(c).prev, b) /\ Ref_eq(at(b).prev, a) /\ Ref_eq(at(a).prev, c)

\* ------------------------------------------- std BTreeMap / HashMap as maps
\* A map is a function on the set of its keys.
Map_insert(m, k, v) ==
    [map |-> [x \in DOMAIN m \cup {k} |-> IF x = k THEN v ELSE m[x]],
     ret |-> IF k \in DOMAIN m THEN Some(m[k]) ELSE None]

Map_remove(m, k) ==
    [map |-> [x \in DOMAIN m \ {k} |-> m[x]],
     ret |-> IF k \in DOMAIN m THEN Some(m[k]) ELSE None]

Map_get(m, k) == IF k \in DOMAIN m THEN Some(m[k]) ELSE None

\* The keys of a BTreeMap in iteration order: ascending.
SortedKeys(S) ==
    CHOOSE q \in [1..Cardinality(S) -> S] :
        \A i \in 1..Cardinality(S), j \in 1..Cardinality(S) : i < j => q[i] < q[j]

\* Every order a HashMap may iterate its keys in.
KeyOrders(S) ==
    {q \in [1..Cardinality(S) -> S] :
        \A i \in 1..Cardinality(S), j \in 1..Cardinality(S) : i # j => q[i] # q[j]}

\* ------------------------------------------------------------ btree_graph.rs
\* The result of a call on a keyed graph: arenas and index afterwards, the
\* handle or the values it returned, and whether it panicked.
KRes(gs, idx, retH, retV, panic) ==
    [gs |-> gs, idx |-> idx, retH |-> retH, retV |-> retV, panic |-> panic]

\* Variant: the old node of an overwritten key is not cleared.
BTreeGraph_insert_KeepOld(gs, idx, a, key, value) ==
    LET node == Graph_insert(gs, a, value)
        old == Map_insert(idx, key, Ref_clone(node.retH[1]))
    IN  KRes(node.gs, old.map, node.retH, <<>>, FALSE)

BTreeGraph_insert(gs, idx, a, key, value) ==
    LET node == Graph_insert(gs, a, value)
        old == Map_insert(idx, key, Ref_clone(node.retH[1]))
    IN  IF old.ret = None
        THEN KRes(node.gs, old.map, node.retH, <<>>, FALSE)
        ELSE LET r == Ref_try_remove_unchecked(node.gs, old.ret[1])
             IN  IF r.ret = None
                 THEN KRes(r.gs, old.map, None, <<>>, TRUE)
                 ELSE KRes(r.gs, old.map, node.retH, <<>>, FALSE)

\* Variant: the promised handle is not registered in the index.
BTreeGraph_promise_NoIndex(gs, idx, a, key) ==
    LET node == Graph_promise(gs, a)
    IN  KRes(node.gs, idx, node.retH, <<>>, FALSE)

BTreeGraph_promise(gs, idx, a, key) ==
    LET node == Graph_promise(gs, a)
        old == Map_insert(idx, key, Ref_clone(node.retH[1]))
    IN  IF old.ret = None
        THEN KRes(node.gs, old.map, node.retH, <<>>, FALSE)
        ELSE LET r == Ref_try_remove_unchecked(node.gs, old.ret[1])
             IN  IF r.ret = None
                 THEN KRes(r.gs, old.map, None, <<>>, TRUE)
                 ELSE KRes(r.gs, old.map, node.retH, <<>>, FALSE)

\* Variant: the slot is cleared but the key stays in the index.
BTreeGraph_remove_KeepKey(gs, idx, a, key) ==
    LET node == Map_get(idx, key)
    IN  IF node = None
        THEN KRes(gs, idx, None, <<>>, FALSE)
        ELSE LET r == Ref_try_remove_unchecked(gs, node[1])
             IN  KRes(r.gs, idx, None, r.ret, r.ret = None)

\* Variant: the key leaves the index but its slot keeps the value.
BTreeGraph_remove_KeepSlot(gs, idx, a, key) ==
    LET node == Map_remove(idx, key)
    IN  IF node.ret = None
        THEN KRes(gs, idx, None, <<>>, FALSE)
        ELSE LET r == Ref_try_get_unchecked(gs, node.ret[1])
             IN  KRes(gs, node.map, None, r, r = None)

\* remove returns Option<V>: retV is <<>> for None and <<v>> for Some(v).
BTreeGraph_remove(gs, idx, a, key) ==
    LET node == Map_remove(idx, key)
    IN  IF node.ret = None
        THEN KRes(gs, idx, None, <<>>, FALSE)
        ELSE LET r == Ref_try_remove_unchecked(gs, node.ret[1])
             IN  KRes(r.gs, node.map, None, r.ret, r.ret = None)

BTreeGraph_get_ref(idx, key) == Map_get(idx, key)

\* get returns Option<&V>: retV is <<>> for None and <<v>> for Some(v).
BTreeGraph_get(gs, idx, a, key) ==
    LET node == BTreeGraph_get_ref(idx, key)
    IN  IF node = None
        THEN KRes(gs, idx, None, <<>>, FALSE)
        ELSE LET r == Ref_try_get_unchecked(gs, node[1])
             IN  KRes(gs, idx, None, r, r = None)

BTreeGraph_get_key_value(gs, idx, a, key) ==
    LET ent == Map_get(idx, key)
    IN  IF ent = None
        THEN KRes(gs, idx, None, <<>>, FALSE)
        ELSE LET r == Ref_try_get_unchecked(gs, ent[1])
             IN  KRes(gs, idx, None, r, r = None)

BTreeGraph_get_mut(gs, idx, a, key) ==
    LET node == BTreeGraph_get_ref(idx, key)
    IN  IF node = None
        THEN KRes(gs, idx, None, <<>>, FALSE)
        ELSE LET r == Ref_try_get_unchecked_mut(gs, node[1])
             IN  KRes(gs, idx, None, r, r = None)

BTreeGraph_get_key_value_mut(gs, idx, a, key) ==
    LET ent == Map_get(idx, key)
    IN  IF ent = None
        THEN KRes(gs, idx, None, <<>>, FALSE)
        ELSE LET r == Ref_try_get_unchecked_mut(gs, ent[1])
             IN  KRes(gs, idx, None, r, r = None)

BTreeGraph_create(gs, idx, a, node, value) ==
    LET r == Graph_create(gs, a, node, value)
    IN  KRes(r.gs, idx, r.retH, r.retV, r.panic)

BTreeGraph_borrow(gs, idx, a, node) ==
    LET r == Graph_borrow(gs, a, node)
    IN  KRes(r.gs, idx, r.retH, r.retV, r.panic)

BTreeGraph_borrow_mut(gs, idx, a, node, write) ==
    LET r == Graph_borrow_mut(gs, a, node, write)
    IN  KRes(r.gs, idx, r.retH, r.retV, r.panic)

\* iter / values / iter_mut / values_mut run to the end: every handle of the
\* index is unwrapped, in the order given.
Index_values(gs, idx, order) ==
    IF \E i \in DOMAIN order : Ref_try_get_unchecked(gs, idx[order[i]]) = None
    THEN KRes(gs, idx, None, <<>>, TRUE)
    ELSE KRes(gs, idx, None,
              [i \in DOMAIN order |-> Ref_try_get_unchecked(gs, idx[order[i]])[1]],
              FALSE)

BTreeGraph_values(gs, idx) == Index_values(gs, idx, SortedKeys(DOMAIN idx))

\* Variant: the index is walked from its greatest key down.
BTreeGraph_iter_ref_Descending(idx) ==
    LET keys == SortedKeys(DOMAIN idx)
    IN  [i \in DOMAIN keys |->
           <<keys[Len(keys) + 1 - i], idx[keys[Len(keys) + 1 - i]]>>]

\* iter_ref: self.index.iter(), the entries of the BTreeMap in its order.
BTreeGraph_iter_ref(idx) ==
    LET keys == SortedKeys(DOMAIN idx)
    IN  [i \in DOMAIN keys |-> <<keys[i], idx[keys[i]]>>]

\* keys: self.index.keys().
BTreeGraph_keys(idx) ==
    [i \in DOMAIN BTreeGraph_iter_ref(idx) |-> BTreeGraph_iter_ref(idx)[i][1]]

\* iter and iter_mut: iter_ref mapped through try_get_unchecked(_mut) and
\* unwrap, one entry per step; the items yielded until the end or until the
\* unwrap of an empty slot panics.
BTreeGraph_iter_items(gs, idx) ==
    LET refs == BTreeGraph_iter_ref(idx)
        empty == {i \in DOMAIN refs : Ref_try_get_unchecked(gs, refs[i][2]) = None}
        n == IF empty = {} THEN Len(refs)
             ELSE (CHOOSE i \in empty : \A j \in empty : i <= j) - 1
    IN  [items |-> [i \in 1..n |->
                      <<refs[i][1], Ref_try_get_unchecked(gs, refs[i][2])[1]>>],
         panic |-> empty # {}]

\* values and values_mut: the same walk without the keys.
BTreeGraph_values_items(gs, idx) ==
    LET it == BTreeGraph_iter_items(gs, idx)
    IN  [items |-> [i \in DOMAIN it.items |-> it.items[i][2]], panic |-> it.panic]

\* Variant: the default is inserted whether or not the key has an entry.
BTreeGraph_or_insert_with_Always(gs, idx, a, key, value) ==
    LET node == Graph_insert(gs, a, value)
        ent == Map_insert(idx, key, node.retH[1])
        r == Ref_try_get_unchecked_mut(node.gs, ent.map[key])
    IN  KRes(node.gs, ent.map, None, r, r = None)

\* entry(key).or_insert_with(default), default() returning `value`.
BTreeGraph_or_insert_with(gs, idx, a, key, value) ==
    IF key \notin DOMAIN idx
    THEN LET node == Graph_insert(gs, a, value)
             ent == Map_insert(idx, key, node.retH[1])
             r == Ref_try_get_unchecked_mut(node.gs, ent.map[key])
         IN  KRes(node.gs, ent.map, None, r, r = None)
    ELSE LET r == Ref_try_get_unchecked_mut(gs, idx[key])
         IN  KRes(gs, idx, None, r, r = None)

\* Variant: a repeated key keeps the handle of its first pair.
BulkStep_KeepFirst(gs, idx, a, pair) ==
    LET node == Graph_insert(gs, a, pair[2])
    IN  [gs |-> node.gs,
         idx |-> IF pair[1] \in DOMAIN idx THEN idx
                 ELSE Map_insert(idx, pair[1], node.retH[1]).map]

\* One step of from_iter / visit_map: the old handle of a repeated key is
\* dropped from the index, its slot is left as it is.
BulkStep(gs, idx, a, pair) ==
    LET node == Graph_insert(gs, a, pair[2])
    IN  [gs |-> node.gs, idx |-> Map_insert(idx, pair[1], node.retH[1]).map]

RECURSIVE BulkFold(_, _, _, _)
BulkFold(gs, idx, a, pairs) ==
    IF pairs = <<>> THEN [gs |-> gs, idx |-> idx]
    ELSE LET st == BulkStep(gs, idx, a, Head(pairs))
         IN  BulkFold(st.gs, st.idx, a, Tail(pairs))

\* FromIterator: a new arena (Graph::with_capacity takes a new generation)
\* and a new index, filled pair by pair.
BTreeGraph_from_iter(gs, counter, a, pairs) ==
    LET g == Graph_new(counter)
        st == BulkFold([gs EXCEPT ![a] = g.graph], <<>>, a, pairs)
    IN  [gs |-> st.gs, idx |-> st.idx, counter |-> g.counter]

\* ------------------------------------------------------------- hash_graph.rs
HashGraph_insert(gs, idx, a, key, value) ==
    LET node == Graph_insert(gs, a, value)
        old == Map_insert(idx, key, Ref_clone(node.retH[1]))
    IN  IF old.ret = None
        THEN KRes(node.gs, old.map, node.retH, <<>>, FALSE)
        ELSE LET r == Ref_try_remove_unchecked(node.gs, old.ret[1])
             IN  IF r.ret = None
                 THEN KRes(r.gs, old.map, None, <<>>, TRUE)
                 ELSE KRes(r.gs, old.map, node.retH, <<>>, FALSE)

HashGraph_promise(gs, idx, a, key) ==
    LET node == Graph_promise(gs, a)
        old == Map_insert(idx, key, Ref_clone(node.retH[1]))
    IN  IF old.ret = None
        THEN KRes(node.gs, old.map, node.retH, <<>>, FALSE)
        ELSE LET r == Ref_try_remove_unchecked(node.gs, old.ret[1])
             IN  IF r.ret = None
                 THEN KRes(r.gs, old.map, None, <<>>, TRUE)
                 ELSE KRes(r.gs, old.map, node.retH, <<>>, FALSE)

HashGraph_remove(gs, idx, a, key) ==
    LET node == Map_remove(idx, key)
    IN  IF node.ret = None
        THEN KRes(gs, idx, None, <<>>, FALSE)
        ELSE LET r == Ref_try_remove_unchecked(gs, node.ret[1])
             IN  KRes(r.gs, node.map, None, r.ret, r.ret = None)

HashGraph_get_ref(idx, key) == Map_get(idx, key)

HashGraph_get(gs, idx, a, key) ==
    LET node == HashGraph_get_ref(idx, key)
    IN  IF node = None
        THEN KRes(gs, idx, None, <<>>, FALSE)
        ELSE LET r == Ref_try_get_unchecked(gs, node[1])
             IN  KRes(gs, idx, None, r, r = None)

HashGraph_or_insert_with(gs, idx, a, key, value) ==
    IF key \notin DOMAIN idx
    THEN LET node == Graph_insert(gs, a, value)
             ent == Map_insert(idx, key, node.retH[1])
             r == Ref_try_get_unchecked_mut(node.gs, ent.map[key])
         IN  KRes(node.gs, ent.map, None, r, r = None)
    ELSE LET r == Ref_try_get_unchecked_mut(gs, idx[key])
         IN  KRes(gs, idx, None, r, r = None)

HashGraph_from_iter(gs, counter, a, pairs) ==
    LET g == Graph_new(counter)
        st == BulkFold([gs EXCEPT ![a] = g.graph], <<>>, a, pairs)
    IN  [gs |-> st.gs, idx |-> st.idx, counter |-> g.counter]

\* create, borrow and borrow_many_mut of both keyed graphs forward to the
\* arena.
BTreeGraph_borrow_many_mut(gs, idx, a, nodes) ==
    LET r == Graph_borrow_many_mut(gs, a, nodes)
    IN  KRes(r.gs, idx, r.retH, r.retV, r.panic)

HashGraph_create(gs, idx, a, node, value) ==
    LET r == Graph_create(gs, a, node, value)
    IN  KRes(r.gs, idx, r.retH, r.retV, r.panic)

HashGraph_borrow(gs, idx, a, node) ==
    LET r == Graph_borrow(gs, a, node)
    IN  KRes(r.gs, idx, r.retH, r.retV, r.panic)

HashGraph_borrow_many_mut(gs, idx, a, nodes) ==
    LET r == Graph_borrow_many_mut(gs, a, nodes)
    IN  KRes(r.gs, idx, r.retH, r.retV, r.panic)

\* ------------------------------------------------------ the keyed graph
\* Arena A and the index form one keyed graph, a BTreeGraph or a HashGraph.
Kinds == {"btree", "hash"}

Keyed_insert(gs, idx, key, value) ==
    IF kind = "btree" THEN BTreeGraph_insert(gs, idx, A, key, value)
    ELSE HashGraph_insert(gs, idx, A, key, value)

Keyed_promise(gs, idx, key) ==
    IF kind = "btree" THEN BTreeGraph_promise(gs, idx, A, key)
    ELSE HashGraph_promise(gs, idx, A, key)

Keyed_remove(gs, idx, key) ==
    IF kind = "btree" THEN BTreeGraph_remove(gs, idx, A, key)
    ELSE HashGraph_remove(gs, idx, A, key)

Keyed_get(gs, idx, key) ==
    IF kind = "btree" THEN BTreeGraph_get(gs, idx, A, key)
    ELSE HashGraph_get(gs, idx, A, key)

Keyed_get_ref(idx, key) ==
    IF kind = "btree" THEN BTreeGraph_get_ref(idx, key)
    ELSE HashGraph_get_ref(idx, key)

Keyed_or_insert_with(gs, idx, key, value) ==
    IF kind = "btree" THEN BTreeGraph_or_insert_with(gs, idx, A, key, value)
    ELSE HashGraph_or_insert_with(gs, idx, A, key, value)

Keyed_from_iter(gs, counter, pairs) ==
    IF kind = "btree" THEN BTreeGraph_from_iter(gs, counter, A, pairs)
    ELSE HashGraph_from_iter(gs, counter, A, pairs)

\* What a key names before a call: nothing, or the state of its handle's slot.
KeyState(gs, idx, pr, key) ==
    IF key \notin DOMAIN idx THEN "absent" ELSE SlotState(gs, pr, idx[key])

KCall(op, key, hs, val, pre, r) == Call(op, A, key, hs, val, pre, r)

InitKeyed ==
    /\ GENERATION = InitGraphs.counter
    /\ graphs = InitGraphs.gs
    /\ index = EmptyIndex
    /\ promised = {}
    /\ given = <<>>
    /\ kind = "btree"
    /\ NoRefs
    /\ last = NoCall

KInsert(k, v) ==
    /\ Len(graphs[A].nodes) < MaxKeyedSlots
    /\ LET r == Keyed_insert(graphs, index, k, v)
       IN  /\ graphs' = r.gs
           /\ index' = r.idx
           /\ last' = KCall("k_insert", Some(k), <<>>, Some(v),
                            KeyState(graphs, index, promised, k), r)
    /\ UNCHANGED <<GENERATION, promised, given, kind, refVars>>

KPromise(k) ==
    /\ Len(graphs[A].nodes) < MaxKeyedSlots
    /\ LET r == Keyed_promise(graphs, index, k)
       IN  /\ graphs' = r.gs
           /\ index' = r.idx
           /\ promised' = promised \cup
                 {<<IF r.retH # None THEN r.retH[1] ELSE r.idx[k], Some(k)>>}
           /\ last' = KCall("k_promise", Some(k), <<>>, None,
                            KeyState(graphs, index, promised, k), r)
    /\ UNCHANGED <<GENERATION, given, kind, refVars>>

KRemove(k) ==
    /\ LET r == Keyed_remove(graphs, index, k)
       IN  /\ graphs' = r.gs
           /\ index' = r.idx
           /\ last' = KCall("k_remove", Some(k), <<>>, None,
                            KeyState(graphs, index, promised, k), r)
    /\ UNCHANGED <<GENERATION, promised, given, kind, refVars>>

KCreate(h, v) ==
    /\ LET r == BTreeGraph_create(graphs, index, A, h, v)
       IN  /\ graphs' = r.gs
           /\ index' = r.idx
           /\ promised' = IF r.panic THEN promised
                          ELSE {p \in promised : p[1] # h}
           /\ last' = KCall("create", None, <<h>>, Some(v),
                            SlotState(graphs, promised, h), r)
    /\ UNCHANGED <<GENERATION, given, kind, refVars>>

KOrInsertWith(k, v) ==
    /\ k \in DOMAIN index \/ Len(graphs[A].nodes) < MaxKeyedSlots
    /\ LET r == Keyed_or_insert_with(graphs, index, k, v)
       IN  /\ graphs' = r.gs
           /\ index' = r.idx
           \* default() runs, and its value exists, only for a vacant entry
           /\ last' = KCall("k_or_insert_with", Some(k), <<>>,
                            IF k \in DOMAIN index THEN None ELSE Some(v),
                            KeyState(graphs, index, promised, k), r)
    /\ UNCHANGED <<GENERATION, promised, given, kind, refVars>>

KGet(k) ==
    /\ LET r == Keyed_get(graphs, index, k)
       IN  /\ graphs' = r.gs
           /\ index' = r.idx
           /\ last' = KCall("k_get", Some(k), <<>>, None,
                            KeyState(graphs, index, promised, k), r)
    /\ UNCHANGED <<GENERATION, promised, given, kind, refVars>>

KBorrow(h) ==
    /\ LET r == BTreeGraph_borrow(graphs, index, A, h)
       IN  /\ graphs' = r.gs
           /\ index' = r.idx
           /\ last' = KCall("borrow", None, <<h>>, None,
                            SlotState(graphs, promised, h), r)
    /\ UNCHANGED <<GENERATION, promised, given, kind, refVars>>

KBorrowMut(h, w) ==
    /\ LET r == BTreeGraph_borrow_mut(graphs, index, A, h, w)
       IN  /\ graphs' = r.gs
           /\ index' = r.idx
           /\ last' = KCall("borrow_mut", None, <<h>>, w,
                            SlotState(graphs, promised, h), r)
    /\ UNCHANGED <<GENERATION, promised, given, kind, refVars>>

KValues(order) ==
    /\ kind = "btree" => order = SortedKeys(DOMAIN index)
    /\ LET r == Index_values(graphs, index, order)
       IN  /\ graphs' = r.gs
           /\ index' = r.idx
           /\ last' = KCall("k_values", None, <<>>, None, "none", r)
    /\ UNCHANGED <<GENERATION, promised, given, kind, refVars>>

\* The program may start from a bulk build instead of new().
KFromIter(pairs) ==
    /\ last.op = "init"
    /\ Len(pairs) <= MaxKeyedSlots
    /\ LET r == Keyed_from_iter(graphs, GENERATION, pairs)
       IN  /\ graphs' = r.gs
           /\ index' = r.idx
           /\ GENERATION' = r.counter
           \* val records the pairs the build was given
           /\ last' = KCall("k_from_iter", None, <<>>, pairs, "none",
                            KRes(r.gs, r.idx, None, <<>>, FALSE))
    /\ UNCHANGED <<promised, given, kind, refVars>>

Pairs == Keys \X Values

\* The sequences a bulk build is given: long enough to repeat a key.
PairSeqs == UNION {[1..n -> Pairs] : n \in 0..Cardinality(Keys)}

NextKeyed ==
    \/ \E k \in Keys, v \in Values : KInsert(k, v)
    \/ \E k \in Keys : KPromise(k)
    \/ \E k \in Keys : KRemove(k)
    \/ \E h \in AllIssued(graphs), v \in Values : KCreate(h, v)
    \/ \E k \in Keys, v \in Values : KOrInsertWith(k, v)
    \/ \E k \in Keys : KGet(k)
    \/ \E h \in AllIssued(graphs) : KBorrow(h)
    \/ \E h \in AllIssued(graphs), v \in Values : KBorrowMut(h, Some(v))
    \/ \E order \in KeyOrders(DOMAIN index) : KValues(order)
    \/ \E pairs \in PairSeqs : KFromIter(pairs)

SpecKeyed == InitKeyed /\ [][NextKeyed]_vars

\* ---------------------------------------------------------- keyed claims
\* The call names the slot of h: by the handle itself, or by a key the index
\* maps to h.
Targets(c, idx, h) ==
    \/ \E i \in DOMAIN c.hs : c.hs[i].value = h.value
    \/ c.key # None /\ c.key[1] \in DOMAIN idx /\ idx[c.key[1]].value = h.value

\* C2: a handle to an occupied slot dereferences to the same value after any
\* call (insert, promise, remove, or_insert_with, create, borrow_mut, reads)
\* that names another slot or another key.
C2_HandleStable ==
    [][\A h \in AllIssued(graphs) :
          (Occupied(graphs, h) /\ last'.op # "k_from_iter"
             /\ ~Targets(last', index, h)) =>
            /\ h \in AllIssued(graphs')
            /\ ~Graph_borrow(graphs', A, h).panic
            /\ Graph_borrow(graphs', A, h).retV = Graph_borrow(graphs, A, h).retV]_vars

\* A second key has just been inserted in a new slot while the first key's
\* node, allocated earlier, is still there.
C2_Witness ==
    /\ last.op = "k_insert" /\ ~last.panic /\ last.pre = "absent"
    /\ \E k \in DOMAIN index :
          /\ k # last.key[1]
          /\ index[k].value[2] < last.retH[1].value[2]
          /\ ~Graph_borrow(graphs, A, index[k]).panic

\* What insert(k, v) must have done when k held a value under handle idx[k].
OverwriteOk(gs, idx, k, v, r) ==
    /\ ~r.panic
    /\ r.retH # None
    /\ LET h1 == idx[k]
           h2 == r.retH[1]
       IN  /\ ~Ref_eq(h1, h2)
           /\ h1.value # h2.value
           /\ Map_get(r.idx, k) = Some(h2)
           /\ ~Graph_borrow(r.gs, A, h2).panic
           /\ Graph_borrow(r.gs, A, h2).retV = Some(v)
           /\ Gen_eq(r.gs[A].gen, h1.gen)
           /\ SlotAt(r.gs, h1.value) = None
           /\ Graph_borrow(r.gs, A, h1).panic

\* C5: insert(k, v2) on a key that holds a value under h1 returns a handle
\* h2 other than h1; afterwards get(k) and borrow(h2) return v2 and h1's
\* slot is cleared, so borrow(h1) fails.  Both variants.
C5_OverwriteInvalidates ==
    /\ [](\A k \in DOMAIN index, v \in Values :
            Occupied(graphs, index[k]) =>
              /\ OverwriteOk(graphs, index, k, v,
                             BTreeGraph_insert(graphs, index, A, k, v))
              /\ BTreeGraph_get(BTreeGraph_insert(graphs, index, A, k, v).gs,
                                BTreeGraph_insert(graphs, index, A, k, v).idx,
                                A, k).retV = Some(v)
              /\ OverwriteOk(graphs, index, k, v,
                             HashGraph_insert(graphs, index, A, k, v))
              /\ HashGraph_get(HashGraph_insert(graphs, index, A, k, v).gs,
                               HashGraph_insert(graphs, index, A, k, v).idx,
                               A, k).retV = Some(v))
    /\ [][(last'.op = "k_insert" /\ last'.key[1] \in DOMAIN index
              /\ Occupied(graphs, index[last'.key[1]])) =>
            /\ ~last'.panic
            /\ last'.retH # None
            /\ ~Ref_eq(index[last'.key[1]], last'.retH[1])
            /\ Keyed_get(graphs', index', last'.key[1]).retV = last'.val
            /\ Graph_borrow(graphs', A, last'.retH[1]).retV = last'.val
            /\ Graph_borrow(graphs', A, index[last'.key[1]]).panic]_vars

\* A key holding a value has just been overwritten with another value.
C5_Witness ==
    /\ last.op = "k_insert" /\ last.pre = "occupied" /\ ~last.panic
    /\ Keyed_get(graphs, index, last.key[1]).retV = last.val
    /\ \E h \in AllIssued(graphs) :
          /\ h # last.retH[1]
          /\ SlotState(graphs, promised, h) = "cleared"
          /\ Graph_borrow(graphs, A, h).panic

\* C8 (as claimed): keyed insert and keyed promise succeed whatever the key
\* held before (nothing, a value, or a promise not yet created): they return
\* the new handle, the index maps the key to it, and the handle registered
\* before is cleared.
C8_InsertAlwaysSucceeds ==
    last.op \in {"k_insert", "k_promise"} =>
        /\ ~last.panic
        /\ last.retH # None
        /\ Keyed_get_ref(index, last.key[1]) = last.retH

\* C9 (as claimed): every handle of the index points to an occupied slot, so
\* the lookups and the iterators never panic.
C9_IndexAlwaysOccupied ==
    /\ \A k \in DOMAIN index :
          /\ Occupied(graphs, index[k])
          /\ ~BTreeGraph_get(graphs, index, A, k).panic
          /\ ~BTreeGraph_get_mut(graphs, index, A, k).panic
          /\ ~BTreeGraph_get_key_value(graphs, index, A, k).panic
          /\ ~BTreeGraph_get_key_value_mut(graphs, index, A, k).panic
    /\ ~BTreeGraph_values(graphs, index).panic
    /\ last.op \in {"k_get", "k_values"} => ~last.panic

\* C9 (amended): every handle of the index carries the graph's generation
\* and points to a slot that is occupied, except a key registered by
\* promise(key) whose handle has not been created yet; get, get_mut,
\* get_key_value, get_key_value_mut panic for exactly those keys, and the
\* iterators panic exactly when there is such a key.
C9_IndexOccupiedUnlessPromised ==
    /\ \A k \in DOMAIN index :
          /\ IsSlot(graphs, index[k].value)
          /\ Gen_eq(graphs[A].gen, index[k].gen)
          /\ ~Occupied(graphs, index[k]) => <<index[k], Some(k)>> \in promised
          /\ BTreeGraph_get(graphs, index, A, k).panic
                <=> <<index[k], Some(k)>> \in promised
          /\ BTreeGraph_get_mut(graphs, index, A, k).panic
                <=> <<index[k], Some(k)>> \in promised
          /\ BTreeGraph_get_key_value(graphs, index, A, k).panic
                <=> <<index[k], Some(k)>> \in promised
          /\ BTreeGraph_get_key_value_mut(graphs, index, A, k).panic
                <=> <<index[k], Some(k)>> \in promised
    /\ BTreeGraph_values(graphs, index).panic
          <=> \E k \in DOMAIN index : <<index[k], Some(k)>> \in promised
    /\ last.op = "k_get" => (last.panic <=> last.pre = "promised")

\* get has just panicked on a promised key while another key holds a value.
C9_Witness ==
    /\ last.op = "k_get" /\ last.panic /\ last.pre = "promised"
    /\ \E k \in DOMAIN index :
          k # last.key[1] /\ ~BTreeGraph_get(graphs, index, A, k).panic

RemoveOk(gs, idx, k, r) ==
    /\ ~r.panic
    /\ r.retV = SlotAt(gs, idx[k].value)
    /\ r.retV # None
    /\ k \notin DOMAIN r.idx
    /\ \A x \in DOMAIN idx \ {k} : Map_get(r.idx, x) = Some(idx[x])
    /\ SlotAt(r.gs, idx[k].value) = None
    /\ Graph_borrow(r.gs, A, idx[k]).panic
    /\ Graph_borrow_mut(r.gs, A, idx[k], None).panic

\* C11 (as claimed): remove(key) on a key of the index returns Some(value),
\* whatever the key's slot holds.
C11_RemoveReturnsValue ==
    (last.op = "k_remove" /\ last.pre # "absent") =>
        /\ ~last.panic
        /\ last.retV # None

\* C11 (amended): remove(key) on a key that holds a value returns
\* Some(that value), the key leaves the index and its slot is cleared, so
\* get(key) is None and the handle the key had fails to dereference; on a key
\* not in the index it returns None and changes nothing; on a key promised
\* and not yet created it panics.  Both variants.
C11_KeyedRemove ==
    /\ [](\A k \in DOMAIN index :
            Occupied(graphs, index[k]) =>
              /\ RemoveOk(graphs, index, k, BTreeGraph_remove(graphs, index, A, k))
              /\ BTreeGraph_get(BTreeGraph_remove(graphs, index, A, k).gs,
                                BTreeGraph_remove(graphs, index, A, k).idx,
                                A, k) = KRes(BTreeGraph_remove(graphs, index, A, k).gs,
                                             BTreeGraph_remove(graphs, index, A, k).idx,
                                             None, <<>>, FALSE)
              /\ RemoveOk(graphs, index, k, HashGraph_remove(graphs, index, A, k)))
    /\ [](\A k \in Keys \ DOMAIN index :
              /\ BTreeGraph_remove(graphs, index, A, k)
                    = KRes(graphs, index, None, <<>>, FALSE)
              /\ HashGraph_remove(graphs, index, A, k)
                    = KRes(graphs, index, None, <<>>, FALSE))
    /\ [][last'.op = "k_remove" =>
            /\ last'.pre \in {"absent", "occupied", "promised"}
            /\ last'.pre = "absent" =>
                  /\ ~last'.panic /\ last'.retV = None
                  /\ graphs' = graphs /\ index' = index
            /\ last'.pre = "occupied" =>
                  /\ ~last'.panic
                  /\ last'.retV = SlotAt(graphs, index[last'.key[1]].value)
                  /\ last'.key[1] \notin DOMAIN index'
                  /\ Keyed_get(graphs', index', last'.key[1]).retV = None
                  /\ ~Keyed_get(graphs', index', last'.key[1]).panic
                  /\ Graph_borrow(graphs', A, index[last'.key[1]]).panic
            /\ last'.pre = "promised" => last'.panic]_vars

\* A key holding a value has just been removed while another key stays.
C11_Witness ==
    /\ last.op = "k_remove" /\ last.pre = "occupied" /\ ~last.panic
    /\ last.retV # None
    /\ last.key[1] \notin DOMAIN index
    /\ \E k \in DOMAIN index : ~BTreeGraph_get(graphs, index, A, k).panic

\* ------------------------------------------------- arena claims, continued
\* C12: remove(h) on an occupied slot of the arena returns the stored value
\* and leaves the slot empty, so that borrow(h) then fails and create(h, v)
\* then succeeds; remove fails when h's generation is not the arena's and
\* when the slot is empty (removed before, or promised and never created),
\* and a failing remove changes no slot.
C12_ArenaRemove ==
    [][last'.op = "remove" =>
         /\ ~last'.panic <=> (OwnCall(last', graphs) /\ last'.pre = "occupied")
         /\ (OwnCall(last', graphs) /\ last'.pre \in {"promised", "cleared"})
               => last'.panic
         /\ ~OwnCall(last', graphs) => last'.panic
         /\ last'.panic => graphs' = graphs
         /\ ~last'.panic =>
               /\ last'.retV = SlotAt(graphs, last'.hs[1].value)
               /\ last'.retV # None
               /\ SlotAt(graphs', last'.hs[1].value) = None
               /\ \A h \in AllIssued(graphs) :
                     h.value # last'.hs[1].value =>
                        SlotAt(graphs', h.value) = SlotAt(graphs, h.value)
               /\ Graph_borrow(graphs', last'.g, last'.hs[1]).panic
               /\ \A v \in Values :
                     LET c == Graph_create(graphs', last'.g, last'.hs[1], v)
                     IN  /\ ~c.panic
                         /\ Graph_borrow(c.gs, last'.g, last'.hs[1]).retV = Some(v)]_vars

\* A value has just been removed from the arena, another slot is occupied.
C12_Witness ==
    /\ last.op = "remove" /\ ~last.panic /\ last.pre = "occupied"
    /\ last.retV \in {Some(v) : v \in Values}
    /\ Graph_borrow(graphs, A, last.hs[1]).panic
    /\ \E h \in Issued(graphs, A) : Occupied(graphs, h)

\* The batches a caller may pass: up to two handles of any origin, or three
\* handles of the arena.
Batches(gs) ==
    UNION {[1..n -> Handles(gs)] : n \in 0..2} \cup [1..3 -> Issued(gs, A)]

\* What the claim asks of a batch: every handle was issued by the arena, no
\* two handles name the same slot, every slot is occupied.
BatchAllOwn(gs, a, hs) ==
    LET own == Issued(gs, a) IN \A i \in DOMAIN hs : hs[i] \in own

BatchDistinct(hs) ==
    \A i \in DOMAIN hs, j \in DOMAIN hs : i # j => hs[i].value # hs[j].value

BatchOccupied(gs, hs) == \A i \in DOMAIN hs : Occupied(gs, hs[i])

\* C13: borrow_many_mut succeeds exactly when every handle of the batch
\* carries the arena's generation, the handles name pairwise distinct slots
\* and every slot is occupied; then the i-th reference is the i-th handle's
\* slot, so no slot is handed out twice.  With a foreign handle or two
\* handles of the same slot it fails at the assertion, before any slot is
\* dereferenced, and no call changes a slot.
C13_BorrowMany ==
    /\ \A hs \in Batches(graphs) :
          LET r == Graph_borrow_many_mut(graphs, A, hs)
          IN  /\ ~r.panic <=> /\ BatchAllOwn(graphs, A, hs)
                              /\ BatchDistinct(hs)
                              /\ BatchOccupied(graphs, hs)
              /\ (~BatchAllOwn(graphs, A, hs) \/ ~BatchDistinct(hs))
                    => ~BorrowManyCheck(graphs, A, hs)
              /\ r.gs = graphs
              /\ ~r.panic =>
                    /\ Len(r.retV) = Len(hs)
                    /\ \A i \in DOMAIN hs : Some(r.retV[i]) = SlotAt(graphs, hs[i].value)
                    /\ BatchDistinct(hs)
    /\ last.op = "borrow_many_mut" =>
          (~last.panic <=> /\ BatchAllOwn(graphs, last.g, last.hs)
                           /\ BatchDistinct(last.hs)
                           /\ BatchOccupied(graphs, last.hs))

\* A batch that names the same occupied slot of the arena twice has failed.
C13_Witness ==
    /\ last.op = "borrow_many_mut" /\ last.panic
    /\ last.hs[1] = last.hs[2]
    /\ last.hs[1] \in Issued(graphs, A)
    /\ Occupied(graphs, last.hs[1])
    /\ \E h \in Issued(graphs, A) :
          /\ h # last.hs[1]
          /\ ~Graph_borrow_many_mut(graphs, A, <<last.hs[1], h>>).panic

\* ------------------------------------------------- keyed claims, continued
\* The handle of the slot the arena allocated last.
NewestHandle(gs) == Ref_new(<<A, Len(gs[A].nodes)>>, gs[A].gen)

\* The calls that register a handle under their key.
Registers(c) ==
    \/ c.op \in {"k_insert", "k_promise"}
    \/ c.op = "k_or_insert_with" /\ c.pre = "absent"

\* The position of the last pair of the sequence that has key k (0: none).
LastPairOf(pairs, k) ==
    LET S == {i \in DOMAIN pairs : pairs[i][1] = k}
    IN  IF S = {} THEN 0 ELSE CHOOSE i \in S : \A j \in S : j <= i

\* What a registering operator must leave in the index for key k.
RegistersNewest(gs, idx, k, r) ==
    /\ Len(r.gs[A].nodes) = Len(gs[A].nodes) + 1
    /\ Map_get(r.idx, k) = Some(NewestHandle(r.gs))
    /\ \A x \in Keys \ {k} : Map_get(r.idx, x) = Map_get(idx, x)

\* C14: in every state each handle of the index carries the generation of
\* the graph's arena and names one of its slots (it is not foreign and not
\* dangling), and the index changes only by registration and removal: after
\* insert, promise or a vacant or_insert_with the key maps to the handle of
\* the slot that call allocated (the handle it returns, when it returns
\* one), after a bulk build each key maps to the handle of its last pair,
\* remove takes the key out, and every other key keeps its handle.
C14_IndexCoupling ==
    /\ [](\A k \in DOMAIN index :
            /\ Gen_eq(graphs[A].gen, index[k].gen)
            /\ ~Ref_is_invalid(index[k])
            /\ index[k] \in Issued(graphs, A)
            /\ index[k] \notin Issued(graphs, B))
    /\ [](\A k \in Keys, v \in Values :
            /\ Len(graphs[A].nodes) < MaxKeyedSlots =>
                  /\ RegistersNewest(graphs, index, k,
                                     BTreeGraph_insert(graphs, index, A, k, v))
                  /\ RegistersNewest(graphs, index, k,
                                     HashGraph_insert(graphs, index, A, k, v))
                  /\ RegistersNewest(graphs, index, k,
                                     BTreeGraph_promise(graphs, index, A, k))
                  /\ RegistersNewest(graphs, index, k,
                                     HashGraph_promise(graphs, index, A, k))
            /\ (Len(graphs[A].nodes) < MaxKeyedSlots /\ k \notin DOMAIN index) =>
                  /\ RegistersNewest(graphs, index, k,
                        BTreeGraph_or_insert_with(graphs, index, A, k, v))
                  /\ RegistersNewest(graphs, index, k,
                        HashGraph_or_insert_with(graphs, index, A, k, v))
            /\ k \in DOMAIN index =>
                  /\ BTreeGraph_or_insert_with(graphs, index, A, k, v).idx = index
                  /\ HashGraph_or_insert_with(graphs, index, A, k, v).idx = index)
    /\ [][\A k \in Keys :
            IF last'.op = "k_from_iter"
            THEN /\ (k \in DOMAIN index') <=> LastPairOf(last'.val, k) # 0
                 /\ k \in DOMAIN index' =>
                       index'[k] = Ref_new(<<A, LastPairOf(last'.val, k)>>,
                                           graphs'[A].gen)
            ELSE IF Registers(last') /\ last'.key = Some(k)
            THEN /\ Map_get(index', k) = Some(NewestHandle(graphs'))
                 /\ NewestHandle(graphs') \notin AllIssued(graphs)
                 /\ ~last'.panic /\ last'.op # "k_or_insert_with"
                       => last'.retH = Some(index'[k])
            ELSE IF last'.op = "k_remove" /\ last'.key = Some(k)
            THEN k \notin DOMAIN index'
            ELSE Map_get(index', k) = Map_get(index, k)]_vars

\* A bulk build was given the same key twice: the key maps to the handle of
\* the second pair, and the first pair's slot is left behind.
C14_Witness ==
    /\ last.op = "k_from_iter"
    /\ Len(last.val) = 2 /\ last.val[1][1] = last.val[2][1]
    /\ index[last.val[1][1]] = Ref_new(<<A, 2>>, graphs[A].gen)
    /\ Gen_eq(graphs[A].gen, index[last.val[1][1]].gen)

\* ------------------------------------------------------------------ index.rs
\* IndexBy::get for a BTreeGraph (self.index().get(key)), a BTreeMap and a
\* HashMap: the handle the index holds for the key.
IndexBy_get(idx, key) == Map_get(idx, key)

\* The types that implement IndexBy, i.e. the types of the values that
\* resolve(&index) accepts.
IndexBy_impls == {"BTreeGraph", "BTreeMap", "HashMap"}

\* Result<(), K> as a sequence: Ok(()) and Err(key).
Ok == <<"Ok">>
Err(key) == <<"Err", key>>

\* ------------------------------------------------- reference.rs, continued
RefBy_new(key, value) == [key |-> key, value |-> value]

RefBy_dangling(key) == RefBy_new(key, Ref_dangling)

\* Variant: the handle is reset to the dangling one when the key is missing.
RefBy_resolve_ResetsOnErr(self, idx) ==
    LET v == IndexBy_get(idx, self.key)
    IN  IF v # None
        THEN [self |-> [self EXCEPT !.value = Ref_clone(v[1])], ret |-> Ok]
        ELSE [self |-> RefBy_dangling(self.key), ret |-> Err(self.key)]

\* Variant: Ok is returned but the handle is left as it was.
RefBy_resolve_NoUpdate(self, idx) ==
    LET v == IndexBy_get(idx, self.key)
    IN  IF v # None
        THEN [self |-> self, ret |-> Ok]
        ELSE [self |-> self, ret |-> Err(self.key)]

\* Variant: a RefBy that already holds the handle of its key is reset.
RefBy_resolve_Toggles(self, idx) ==
    LET v == IndexBy_get(idx, self.key)
    IN  IF v # None
        THEN [self |-> [self EXCEPT !.value =
                          IF self.value = v[1] THEN Ref_dangling
                          ELSE Ref_clone(v[1])],
              ret |-> Ok]
        ELSE [self |-> self, ret |-> Err(self.key)]

\* resolve takes &mut self: `self` is the RefBy afterwards, `ret` the Result.
RefBy_resolve(self, idx) ==
    LET v == IndexBy_get(idx, self.key)
    IN  IF v # None
        THEN [self |-> [self EXCEPT !.value = Ref_clone(v[1])], ret |-> Ok]
        ELSE [self |-> self, ret |-> Err(self.key)]

\* Serialize for RefBy: the key alone goes to the serializer.
RefBy_serialize(self) == self.key

\* Deserialize for RefBy: the key read back, with a dangling handle.
RefBy_deserialize(key) == [key |-> key, value |-> Ref_dangling]

OptRefBy_new(key, value) == [key |-> key, value |-> value]

OptRefBy_dangling(key) == [key |-> key, value |-> Some(Ref_dangling)]

\* Variant: a handle the entry already holds is kept when the key is missing.
OptRefBy_resolve_KeepsOld(self, idx) ==
    IF IndexBy_get(idx, self.key) = None THEN self
    ELSE [self EXCEPT !.value = IndexBy_get(idx, self.key)]

\* self.value = index.get(&self.key).cloned()
OptRefBy_resolve(self, idx) ==
    [self EXCEPT !.value = IndexBy_get(idx, self.key)]

OptRefBy_serialize(self) == self.key

OptRefBy_deserialize(key) == [key |-> key, value |-> None]

\* BTreeGraph::get_ref_by: a RefBy of the key and the index's handle.
BTreeGraph_get_ref_by(idx, key) ==
    LET ent == Map_get(idx, key)
    IN  IF ent = None THEN None ELSE Some(RefBy_new(key, Ref_clone(ent[1])))

\* ----------------------------------------------------------------- refmap.rs
RefMap_new == EmptyIndex

RefMap_insert(self, key, value) == Map_insert(self, key, value)

\* Variant: an entry whose key is missing is skipped and the walk goes on.
RECURSIVE RefMap_resolve_SkipsMissing(_, _, _, _)
RefMap_resolve_SkipsMissing(self, idx, keys, i) ==
    IF i > Len(keys) THEN [self |-> self, ret |-> Ok]
    ELSE LET v == IndexBy_get(idx, keys[i])
         IN  IF v = None
             THEN [self |-> RefMap_resolve_SkipsMissing(self, idx, keys, i + 1).self,
                   ret |-> Err(keys[i])]
             ELSE RefMap_resolve_SkipsMissing(
                      [self EXCEPT ![keys[i]] = Ref_clone(v[1])], idx, keys, i + 1)

\* try_for_each over iter_mut(), from the i-th key of the iteration order: an
\* entry whose key the index has takes the index's handle, the first one
\* whose key is missing ends the walk with Err(key).
RECURSIVE RefMap_resolve_from(_, _, _, _)
RefMap_resolve_from(self, idx, keys, i) ==
    IF i > Len(keys) THEN [self |-> self, ret |-> Ok]
    ELSE LET v == IndexBy_get(idx, keys[i])
         IN  IF v = None
             THEN [self |-> self, ret |-> Err(keys[i])]
             ELSE RefMap_resolve_from(
                      [self EXCEPT ![keys[i]] = Ref_clone(v[1])], idx, keys, i + 1)

RefMap_resolve(self, idx) ==
    RefMap_resolve_from(self, idx, SortedKeys(DOMAIN self), 1)

\* Variant: the keys are emitted in descending order.
RefMap_serialize_Descending(self) ==
    [i \in 1..Cardinality(DOMAIN self) |->
        SortedKeys(DOMAIN self)[Cardinality(DOMAIN self) + 1 - i]]

\* Serialize for RefMap: a sequence of the keys, in the map's order.
RefMap_serialize(self) == SortedKeys(DOMAIN self)

\* Deserialize for RefMap (visit_seq): each key read is inserted with a
\* dangling handle.
RECURSIVE RefMap_deserialize(_)
RefMap_deserialize(seq) ==
    IF seq = <<>> THEN RefMap_new
    ELSE RefMap_insert(RefMap_deserialize(SubSeq(seq, 1, Len(seq) - 1)),
                       seq[Len(seq)], Ref_dangling).map

\* Ord::cmp of two keys.
Key_cmp(a, b) == IF a < b THEN "Less" ELSE IF a = b THEN "Equal" ELSE "Greater"

\* keys().zip(other.keys()): the pairs of the ascending key sequences, as long
\* as both have a key.
RefMap_zip_keys(self, other) ==
    LET ka == SortedKeys(DOMAIN self)
        kb == SortedKeys(DOMAIN other)
    IN  [i \in 1..(IF Len(ka) < Len(kb) THEN Len(ka) ELSE Len(kb)) |->
            <<ka[i], kb[i]>>]

\* PartialEq for RefMap: the lengths are equal and all zipped keys are equal.
RefMap_eq(self, other) ==
    LET zip == RefMap_zip_keys(self, other)
    IN  /\ Cardinality(DOMAIN self) = Cardinality(DOMAIN other)
        /\ \A i \in DOMAIN zip : zip[i][1] = zip[i][2]

\* Variant: the lengths are compared first.
RefMap_cmp_LenFirst(self, other) ==
    LET zip == RefMap_zip_keys(self, other)
        diff == {i \in DOMAIN zip : Key_cmp(zip[i][1], zip[i][2]) # "Equal"}
        first == CHOOSE i \in diff : \A j \in diff : i <= j
    IN  IF Cardinality(DOMAIN self) # Cardinality(DOMAIN other)
        THEN Key_cmp(Cardinality(DOMAIN self), Cardinality(DOMAIN other))
        ELSE IF diff # {} THEN Key_cmp(zip[first][1], zip[first][2])
        ELSE "Equal"

\* Ord for RefMap: find_map returns the comparison of the first zipped pair
\* that is not Equal; without one the lengths are compared.
RefMap_cmp(self, other) ==
    LET zip == RefMap_zip_keys(self, other)
        diff == {i \in DOMAIN zip : Key_cmp(zip[i][1], zip[i][2]) # "Equal"}
        first == CHOOSE i \in diff : \A j \in diff : i <= j
    IN  IF diff # {} THEN Key_cmp(zip[first][1], zip[first][2])
        ELSE Key_cmp(Cardinality(DOMAIN self), Cardinality(DOMAIN other))

OptRefMap_new == EmptyIndex

OptRefMap_insert(self, key, value) == Map_insert(self, key, value).map

\* for_each over iter_mut(): *value = index.get(key).cloned()
OptRefMap_resolve(self, idx) ==
    [k \in DOMAIN self |-> IndexBy_get(idx, k)]

OptRefMap_serialize(self) == SortedKeys(DOMAIN self)

RECURSIVE OptRefMap_deserialize(_)
OptRefMap_deserialize(seq) ==
    IF seq = <<>> THEN OptRefMap_new
    ELSE OptRefMap_insert(OptRefMap_deserialize(SubSeq(seq, 1, Len(seq) - 1)),
                          seq[Len(seq)], None)

\* ------------------------------------------- the reference objects' program
\* A keyed graph (arena A and the index) that grows and shrinks, and one
\* reference object at a time, built by hand, from the graph or by
\* deserialization, and resolved against the graph.
MaxRefSlots == 2

RefKeys == {1, 2, 3}

\* The handles a reference object may be given: the graph's and the dangling.
RefHandles == Issued(graphs, A) \cup {Ref_dangling}

OptHandles == {None} \cup {Some(h) : h \in RefHandles}

InitRefs ==
    /\ GENERATION = InitGraphs.counter
    /\ graphs = InitGraphs.gs
    /\ index = EmptyIndex
    /\ promised = {}
    /\ given = <<>>
    /\ kind = "btree"
    /\ NoRefs
    /\ last = NoCall

\* The call record of an operation on a reference object.
RCall(op, key, ret) ==
    Call(op, A, key, <<>>, None, "none", Res(graphs, None, ret, FALSE))

RGraphInsert(k) ==
    /\ Len(graphs[A].nodes) < MaxRefSlots
    /\ KInsert(k, "v1")

RGraphRemove(k) ==
    /\ k \in DOMAIN index
    /\ KRemove(k)

\* RefBy::new with any handle, RefBy::dangling with the dangling one.
RefByNew(k, h) ==
    /\ optRefBy = None /\ refMap = EmptyIndex /\ optRefMap = EmptyIndex
    /\ refBy' = Some(RefBy_new(k, h))
    /\ last' = RCall("RefBy::new", Some(k), <<>>)
    /\ UNCHANGED <<GENERATION, graphs, index, promised, given, kind,
                   optRefBy, refMap, optRefMap, copy, resolved, threads>>

GetRefBy(k) ==
    /\ optRefBy = None /\ refMap = EmptyIndex /\ optRefMap = EmptyIndex
    /\ BTreeGraph_get_ref_by(index, k) # None
    /\ refBy' = BTreeGraph_get_ref_by(index, k)
    /\ last' = RCall("get_ref_by", Some(k), <<>>)
    /\ UNCHANGED <<GENERATION, graphs, index, promised, given, kind,
                   optRefBy, refMap, optRefMap, copy, resolved, threads>>

RefByResolve ==
    /\ refBy # None
    /\ LET r == RefBy_resolve(refBy[1], index)
       IN  /\ refBy' = Some(r.self)
           /\ last' = RCall("RefBy::resolve", Some(refBy[1].key), r.ret)
    /\ UNCHANGED <<GENERATION, graphs, index, promised, given, kind,
                   optRefBy, refMap, optRefMap, copy, resolved, threads>>

\* The RefBy is serialized and the program goes on with what it reads back.
RefBySerde ==
    /\ refBy # None
    /\ refBy' = Some(RefBy_deserialize(RefBy_serialize(refBy[1])))
    /\ last' = RCall("RefBy::serde", Some(refBy[1].key),
                     <<RefBy_serialize(refBy[1])>>)
    /\ UNCHANGED <<GENERATION, graphs, index, promised, given, kind,
                   optRefBy, refMap, optRefMap, copy, resolved, threads>>

\* OptRefBy::new with any Option of a handle; OptRefBy::dangling is
\* new(key, Some(Ref::dangling())).
OptRefByNew(k, o) ==
    /\ refBy = None /\ refMap = EmptyIndex /\ optRefMap = EmptyIndex
    /\ optRefBy' = Some(OptRefBy_new(k, o))
    /\ last' = RCall("OptRefBy::new", Some(k), <<>>)
    /\ UNCHANGED <<GENERATION, graphs, index, promised, given, kind,
                   refBy, refMap, optRefMap, copy, resolved, threads>>

OptRefByResolve ==
    /\ optRefBy # None
    /\ optRefBy' = Some(OptRefBy_resolve(optRefBy[1], index))
    /\ last' = RCall("OptRefBy::resolve", Some(optRefBy[1].key), <<>>)
    /\ UNCHANGED <<GENERATION, graphs, index, promised, given, kind,
                   refBy, refMap, optRefMap, copy, resolved, threads>>

OptRefBySerde ==
    /\ optRefBy # None
    /\ optRefBy' = Some(OptRefBy_deserialize(OptRefBy_serialize(optRefBy[1])))
    /\ last' = RCall("OptRefBy::serde", Some(optRefBy[1].key),
                     <<OptRefBy_serialize(optRefBy[1])>>)
    /\ UNCHANGED <<GENERATION, graphs, index, promised, given, kind,
                   refBy, refMap, optRefMap, copy, resolved, threads>>

RefMapInsert(k, h) ==
    /\ refBy = None /\ optRefBy = None /\ optRefMap = EmptyIndex
    /\ refMap' = RefMap_insert(refMap, k, h).map
    /\ last' = RCall("RefMap::insert", Some(k), <<>>)
    /\ UNCHANGED <<GENERATION, graphs, index, promised, given, kind,
                   refBy, optRefBy, optRefMap, copy, resolved, threads>>

RefMapResolve ==
    /\ refMap # EmptyIndex
    /\ LET r == RefMap_resolve(refMap, index)
       IN  /\ refMap' = r.self
           /\ last' = RCall("RefMap::resolve", None, r.ret)
    /\ UNCHANGED <<GENERATION, graphs, index, promised, given, kind,
                   refBy, optRefBy, optRefMap, copy, resolved, threads>>

RefMapSerde ==
    /\ refMap # EmptyIndex
    /\ refMap' = RefMap_deserialize(RefMap_serialize(refMap))
    /\ last' = RCall("RefMap::serde", None, RefMap_serialize(refMap))
    /\ UNCHANGED <<GENERATION, graphs, index, promised, given, kind,
                   refBy, optRefBy, optRefMap, copy, resolved, threads>>

OptRefMapInsert(k, o) ==
    /\ refBy = None /\ optRefBy = None /\ refMap = EmptyIndex
    /\ optRefMap' = OptRefMap_insert(optRefMap, k, o)
    /\ last' = RCall("OptRefMap::insert", Some(k), <<>>)
    /\ UNCHANGED <<GENERATION, graphs, index, promised, given, kind,
                   refBy, optRefBy, refMap, copy, resolved, threads>>

OptRefMapResolve ==
    /\ optRefMap # EmptyIndex
    /\ optRefMap' = OptRefMap_resolve(optRefMap, index)
    /\ last' = RCall("OptRefMap::resolve", None, <<>>)
    /\ UNCHANGED <<GENERATION, graphs, index, promised, given, kind,
                   refBy, optRefBy, refMap, copy, resolved, threads>>

OptRefMapSerde ==
    /\ optRefMap # EmptyIndex
    /\ optRefMap' = OptRefMap_deserialize(OptRefMap_serialize(optRefMap))
    /\ last' = RCall("OptRefMap::serde", None, OptRefMap_serialize(optRefMap))
    /\ UNCHANGED <<GENERATION, graphs, index, promised, given, kind,
                   refBy, optRefBy, refMap, copy, resolved, threads>>

NextRefs ==
    \/ \E k \in RefKeys : RGraphInsert(k)
    \/ \E k \in RefKeys : RGraphRemove(k)
    \/ \E k \in RefKeys, h \in RefHandles : RefByNew(k, h)
    \/ \E k \in RefKeys : GetRefBy(k)
    \/ RefByResolve
    \/ RefBySerde
    \/ \E k \in RefKeys, o \in OptHandles : OptRefByNew(k, o)
    \/ OptRefByResolve
    \/ OptRefBySerde
    \/ \E k \in RefKeys, h \in RefHandles : RefMapInsert(k, h)
    \/ RefMapResolve
    \/ RefMapSerde
    \/ \E k \in RefKeys, o \in OptHandles : OptRefMapInsert(k, o)
    \/ OptRefMapResolve
    \/ OptRefMapSerde

SpecRefs == InitRefs /\ [][NextRefs]_vars

\* ------------------------------------------------------- reference claims
\* C15: RefBy::resolve(index) on a RefBy whose key the index has returns Ok
\* and leaves the RefBy with the index's handle for the key; on a key the
\* index does not have it returns Err of exactly that key and leaves key and
\* handle as they were (a dangling handle stays dangling); the key is never
\* changed.
C15_RefByResolve ==
    /\ [][last'.op = "RefBy::resolve" =>
            /\ refBy'[1].key = refBy[1].key
            /\ ~last'.panic
            /\ IF refBy[1].key \in DOMAIN index
               THEN /\ last'.retV = Ok
                    /\ refBy'[1].value = index[refBy[1].key]
               ELSE /\ last'.retV = Err(refBy[1].key)
                    /\ refBy' = refBy
                    /\ Ref_is_invalid(refBy[1].value)
                          => refBy'[1].value = Ref_dangling]_vars
    /\ [](\A k \in RefKeys, h \in RefHandles :
            LET r == RefBy_resolve(RefBy_new(k, h), index)
            IN  /\ r.self.key = k
                /\ IF k \in DOMAIN index
                   THEN r.ret = Ok /\ r.self.value = index[k]
                   ELSE r.ret = Err(k) /\ r.self = RefBy_new(k, h))

\* Resolution of a dangling RefBy has just failed on a key the graph does
\* not have, while the graph has another key.
C15_Witness ==
    /\ last.op = "RefBy::resolve"
    /\ last.retV = Err(refBy[1].key)
    /\ refBy[1].value = Ref_dangling
    /\ refBy[1].key \notin DOMAIN index
    /\ index # EmptyIndex

\* The smallest key of a RefMap that the index does not have (0: none).
FirstMissing(map, idx) ==
    LET S == DOMAIN map \ DOMAIN idx
    IN  IF S = {} THEN 0 ELSE CHOOSE k \in S : \A j \in S : k <= j

\* C16: RefMap::resolve(index) returns Ok exactly when the index has every
\* key of the map, and then every entry holds the index's handle for its
\* key; otherwise it returns Err of the smallest key the index does not have,
\* the entries of smaller keys hold the index's handles and the entries of
\* that key and of every greater key keep the handles they had.  The keys of
\* the map do not change.
C16_RefMapResolve ==
    [][last'.op = "RefMap::resolve" =>
         /\ DOMAIN refMap' = DOMAIN refMap
         /\ ~last'.panic
         /\ last'.retV = Ok <=> DOMAIN refMap \subseteq DOMAIN index
         /\ IF FirstMissing(refMap, index) = 0
            THEN /\ last'.retV = Ok
                 /\ \A k \in DOMAIN refMap : refMap'[k] = index[k]
            ELSE /\ last'.retV = Err(FirstMissing(refMap, index))
                 /\ \A k \in DOMAIN refMap :
                       IF k < FirstMissing(refMap, index)
                       THEN refMap'[k] = index[k]
                       ELSE refMap'[k] = refMap[k]]_vars

\* A RefMap of three keys was resolved against a graph that lacks the middle
\* one: the first entry is resolved, the third still dangles though the graph
\* has its key.
C16_Witness ==
    /\ last.op = "RefMap::resolve"
    /\ last.retV = Err(2)
    /\ DOMAIN refMap = {1, 2, 3}
    /\ DOMAIN index = {1, 3}
    /\ refMap[1] = index[1]
    /\ refMap[3] = Ref_dangling

\* C17: OptRefBy::resolve and OptRefMap::resolve return nothing and do not
\* fail; afterwards each entry holds Some(the index's handle for its key) if
\* the index has the key and None otherwise, whatever it held before, and the
\* keys are the same.
C17_OptResolve ==
    /\ [][last'.op = "OptRefBy::resolve" =>
            /\ ~last'.panic
            /\ optRefBy'[1].key = optRefBy[1].key
            /\ optRefBy'[1].value =
                  IF optRefBy[1].key \in DOMAIN index
                  THEN Some(index[optRefBy[1].key]) ELSE None]_vars
    /\ [][last'.op = "OptRefMap::resolve" =>
            /\ ~last'.panic
            /\ DOMAIN optRefMap' = DOMAIN optRefMap
            /\ \A k \in DOMAIN optRefMap :
                  optRefMap'[k] = IF k \in DOMAIN index
                                  THEN Some(index[k]) ELSE None]_vars
    /\ [](\A k \in RefKeys, o \in OptHandles :
            OptRefBy_resolve(OptRefBy_new(k, o), index) =
               OptRefBy_new(k, IF k \in DOMAIN index THEN Some(index[k]) ELSE None))

\* An OptRefMap has just been resolved: one entry is empty because the graph
\* lacks its key, another holds the graph's handle.
C17_Witness ==
    /\ last.op = "OptRefMap::resolve"
    /\ \E k \in DOMAIN optRefMap : k \notin DOMAIN index /\ optRefMap[k] = None
    /\ \E k \in DOMAIN optRefMap : k \in DOMAIN index /\ optRefMap[k] = Some(index[k])

\* ------------------------------------------------- the dangling sentinel
\* Every handle that stands for "not resolved": Ref::dangling() itself and
\* the handle of a RefBy, an OptRefBy or a RefMap entry built with dangling()
\* or read back by deserialization.
Sentinels ==
    {Ref_dangling}
      \cup {RefBy_dangling(k).value : k \in Keys}
      \cup {RefBy_deserialize(k).value : k \in Keys}
      \cup {OptRefBy_dangling(k).value[1] : k \in Keys}
      \cup {RefMap_deserialize(<<k>>)[k] : k \in Keys}
      \cup {RefBy_deserialize(RefBy_serialize(RefBy_new(k, h))).value :
               k \in Keys, h \in AllIssued(graphs)}

\* C18: no arena has the zero generation; is_invalid() is true for the
\* dangling handle and false for every handle an arena issued; borrow,
\* borrow_mut, create, remove and borrow_many_mut fail against every arena
\* for Ref::dangling() and for the handle of a reference built with
\* dangling() or deserialized and not yet resolved, and such a call changes
\* no slot.
C18_DanglingSentinel ==
    /\ [](/\ \A a \in ArenaIds : ~Gen_is_invalid(graphs[a].gen)
          /\ Ref_is_invalid(Ref_dangling)
          /\ \A h \in AllIssued(graphs) : ~Ref_is_invalid(h)
          /\ \A d \in Sentinels : \A a \in ArenaIds :
                /\ Ref_is_invalid(d)
                /\ Graph_borrow(graphs, a, d).panic
                /\ \A w \in Writes : Graph_borrow_mut(graphs, a, d, w).panic
                /\ \A v \in Values : Graph_create(graphs, a, d, v).panic
                /\ Graph_remove(graphs, a, d).panic
                /\ Graph_borrow_many_mut(graphs, a, <<d>>).panic
                /\ \A h \in AllIssued(graphs) :
                      /\ Graph_borrow_many_mut(graphs, a, <<d, h>>).panic
                      /\ Graph_borrow_many_mut(graphs, a, <<h, d>>).panic
                /\ \A v \in Values : Graph_create(graphs, a, d, v).gs = graphs
                /\ Graph_remove(graphs, a, d).gs = graphs)
    /\ [][(last'.op \in HandleOps
             /\ \E i \in DOMAIN last'.hs : last'.hs[i] = Ref_dangling)
            => last'.panic /\ graphs' = graphs]_vars

\* A create with the dangling handle has just failed on an arena that has an
\* empty slot it could have filled.
C18_Witness ==
    /\ last.op = "create" /\ last.panic
    /\ last.hs = <<Ref_dangling>>
    /\ \E h \in Issued(graphs, A) : SlotAt(graphs, h.value) = None

\* ------------------------------------- serialization of the keyed graphs
\* Serialize for BTreeGraph / HashGraph: serialize_map over self.iter(), that
\* is one (key, value) entry per key of the index in the order given; iter()
\* unwraps every slot, so an empty one makes the call panic.
Index_serialize(gs, idx, order) ==
    IF \E i \in DOMAIN order : Ref_try_get_unchecked(gs, idx[order[i]]) = None
    THEN [out |-> <<>>, panic |-> TRUE]
    ELSE [out |-> [i \in DOMAIN order |->
                     <<order[i], Ref_try_get_unchecked(gs, idx[order[i]])[1]>>],
          panic |-> FALSE]

BTreeGraph_serialize(gs, idx) == Index_serialize(gs, idx, SortedKeys(DOMAIN idx))

\* A HashMap iterates in an order of its own.
HashGraph_serialize(gs, idx, order) == Index_serialize(gs, idx, order)

\* Deserialize (GraphVisitor::visit_map): a new arena with a new generation
\* and a new index; every entry read is inserted in the arena and its handle
\* is put in the index under the key.
BTreeGraph_deserialize(gs, counter, a, entries) ==
    LET g == Graph_new(counter)
        st == BulkFold([gs EXCEPT ![a] = g.graph], <<>>, a, entries)
    IN  [gs |-> st.gs, idx |-> st.idx, counter |-> g.counter]

HashGraph_deserialize(gs, counter, a, entries) ==
    LET g == Graph_new(counter)
        st == BulkFold([gs EXCEPT ![a] = g.graph], <<>>, a, entries)
    IN  [gs |-> st.gs, idx |-> st.idx, counter |-> g.counter]

\* ------------------------------------------- the round trip of a keyed graph
\* A keyed graph (arena A and the index) is built by inserts, of either
\* kind; it is serialized and the output is deserialized into a new graph
\* (arena B and the index `copy`); then handles are tried on both graphs.
MaxSerdeSlots == 3

InitSerde ==
    /\ GENERATION = InitGraphs.counter
    /\ graphs = InitGraphs.gs
    /\ index = EmptyIndex
    /\ promised = {}
    /\ given = <<>>
    /\ kind \in Kinds
    /\ NoRefs
    /\ last = NoCall

\* The graph has been deserialized: arena B is the new one.  (Inserts come
\* before the round trip, borrows after it.)
Deserialized == last.op \in {"serde", "borrow"}

SInsert(k, v) ==
    /\ ~Deserialized
    /\ Len(graphs[A].nodes) < MaxSerdeSlots
    /\ KInsert(k, v)

SRoundTrip(order) ==
    /\ ~Deserialized
    /\ kind = "btree" => order = SortedKeys(DOMAIN index)
    /\ LET ser == IF kind = "btree" THEN BTreeGraph_serialize(graphs, index)
                  ELSE HashGraph_serialize(graphs, index, order)
           de == IF kind = "btree"
                 THEN BTreeGraph_deserialize(graphs, GENERATION, B, ser.out)
                 ELSE HashGraph_deserialize(graphs, GENERATION, B, ser.out)
       IN  /\ ~ser.panic
           /\ graphs' = de.gs
           /\ copy' = de.idx
           /\ GENERATION' = de.counter
           /\ last' = Call("serde", B, None, <<>>, ser.out, "none",
                           Res(de.gs, None, <<>>, FALSE))
    /\ UNCHANGED <<index, promised, given, kind, refBy, optRefBy, refMap,
                   optRefMap, resolved, threads>>

\* A handle of either graph is borrowed from either graph.
SBorrow(a, h) ==
    /\ Deserialized
    /\ Borrow(a, h)

NextSerde ==
    \/ \E k \in Keys, v \in Values : SInsert(k, v)
    \/ \E order \in KeyOrders(DOMAIN index) : SRoundTrip(order)
    \/ \E a \in ArenaIds, h \in AllIssued(graphs) : SBorrow(a, h)

SpecSerde == InitSerde /\ [][NextSerde]_vars

\* C19: a keyed graph built by inserts, serialized and deserialized into a
\* new graph, gives a graph with the same keys and the same value under each
\* key; the new graph has a generation of its own, its handles are those of
\* its arena and fail against the original graph, and the original graph's
\* handles fail against the new one.  Both kinds.
C19_GraphRoundTrip ==
    /\ [](Deserialized =>
            /\ DOMAIN copy = DOMAIN index
            /\ graphs[B].gen # graphs[A].gen
            /\ ~Gen_is_invalid(graphs[B].gen)
            /\ Len(graphs[B].nodes) = Cardinality(DOMAIN index)
            /\ \A k \in DOMAIN index :
                  /\ ~BTreeGraph_get(graphs, index, A, k).panic
                  /\ ~BTreeGraph_get(graphs, copy, B, k).panic
                  /\ BTreeGraph_get(graphs, copy, B, k).retV
                        = BTreeGraph_get(graphs, index, A, k).retV
                  /\ HashGraph_get(graphs, copy, B, k).retV
                        = HashGraph_get(graphs, index, A, k).retV
                  /\ copy[k] \in Issued(graphs, B)
                  /\ ~Graph_borrow(graphs, B, copy[k]).panic
                  /\ Graph_borrow(graphs, A, copy[k]).panic
                  /\ Graph_borrow(graphs, B, index[k]).panic
            /\ \A h \in Issued(graphs, A) : Graph_borrow(graphs, B, h).panic
            /\ \A h \in Issued(graphs, B) : Graph_borrow(graphs, A, h).panic)
    /\ [][last'.op = "serde" =>
            /\ graphs'[A] = graphs[A]
            /\ index' = index
            /\ Len(last'.val) = Cardinality(DOMAIN index)
            /\ \A k \in DOMAIN index :
                  \E i \in DOMAIN last'.val :
                     last'.val[i] = <<k, SlotAt(graphs, index[k].value)[1]>>]_vars
    /\ [][(last'.op = "borrow" /\ Deserialized
             /\ last'.hs[1] \notin Issued(graphs, last'.g)) => last'.panic]_vars

\* After the round trip of a graph of two keys, one of them overwritten
\* before, a handle of the new graph has just failed against the original.
C19_Witness ==
    /\ Deserialized
    /\ Cardinality(DOMAIN copy) = 2
    /\ Len(graphs[A].nodes) = 3
    /\ last.op = "borrow" /\ last.g = A /\ last.panic
    /\ \E k \in DOMAIN copy : last.hs = <<copy[k]>>

\* A sequence of keys in ascending order that lists exactly the keys of S.
AscendingKeysOf(seq, S) ==
    /\ Len(seq) = Cardinality(S)
    /\ {seq[i] : i \in DOMAIN seq} = S
    /\ \A i \in DOMAIN seq, j \in DOMAIN seq : i < j => seq[i] < seq[j]

\* C20: a RefBy and an OptRefBy serialize as their key, a RefMap and an
\* OptRefMap as the sequence of their keys in ascending order, and no handle
\* is written; what is read back has the same key(s), with the dangling
\* handle in a RefBy and in every RefMap entry and with no handle in an
\* OptRefBy and in every OptRefMap entry, whatever handles were held before.
C20_RefSerde ==
    /\ [][last'.op = "RefBy::serde" =>
            /\ last'.retV = <<refBy[1].key>>
            /\ refBy' = Some(RefBy_new(refBy[1].key, Ref_dangling))]_vars
    /\ [][last'.op = "OptRefBy::serde" =>
            /\ last'.retV = <<optRefBy[1].key>>
            /\ optRefBy' = Some(OptRefBy_new(optRefBy[1].key, None))]_vars
    /\ [][last'.op = "RefMap::serde" =>
            /\ AscendingKeysOf(last'.retV, DOMAIN refMap)
            /\ DOMAIN refMap' = DOMAIN refMap
            /\ \A k \in DOMAIN refMap : refMap'[k] = Ref_dangling]_vars
    /\ [][last'.op = "OptRefMap::serde" =>
            /\ AscendingKeysOf(last'.retV, DOMAIN optRefMap)
            /\ DOMAIN optRefMap' = DOMAIN optRefMap
            /\ \A k \in DOMAIN optRefMap : optRefMap'[k] = None]_vars

\* A RefMap of three keys has been written and read back: every entry
\* dangles, also those whose key the graph has.
C20_Witness ==
    /\ last.op = "RefMap::serde"
    /\ last.retV = <<1, 2, 3>>
    /\ DOMAIN refMap = {1, 2, 3}
    /\ \A k \in DOMAIN refMap : refMap[k] = Ref_dangling
    /\ \E k \in DOMAIN refMap : k \in DOMAIN index

\* ---------------------------------------------------- the two-pass load
\* A keyed graph whose node payload holds a RefBy and a RefMap (a struct
\* that derives Serialize and Deserialize).  The graph is built (arena A and
\* the index) and its references may be resolved against it; it is then
\* serialized and deserialized into a new graph (arena B and `copy`), and in
\* a second pass the references of every node of the new graph are resolved
\* against the new graph.
MaxLoadSlots == 2

Payload(by, map) == [by |-> by, map |-> map]

\* The derived Serialize / Deserialize of the payload: field by field.
Payload_serialize(p) ==
    [by |-> RefBy_serialize(p.by), map |-> RefMap_serialize(p.map)]

Payload_deserialize(ser) ==
    [by |-> RefBy_deserialize(ser.by), map |-> RefMap_deserialize(ser.map)]

\* Both references of a payload resolved against an index; the Results are
\* dropped, as a load that goes on after a failed resolve does.
Payload_resolve(p, idx) ==
    [by |-> RefBy_resolve(p.by, idx).self, map |-> RefMap_resolve(p.map, idx).self]

InitLoad ==
    /\ GENERATION = InitGraphs.counter
    /\ graphs = InitGraphs.gs
    /\ index = EmptyIndex
    /\ promised = {}
    /\ given = <<>>
    /\ kind = "btree"
    /\ NoRefs
    /\ last = NoCall

\* The second graph has been read: the first pass is over.
Loaded == last.op \in {"load", "resolve"}

\* A node is inserted, or put in the place of the node its key had, whose
\* references are built dangling, by key.
LInsert(k, bk, ks) ==
    /\ ~Loaded
    /\ Len(graphs[A].nodes) < MaxLoadSlots
    /\ KInsert(k, Payload(RefBy_dangling(bk), RefMap_deserialize(SortedKeys(ks))))

\* The references of a node of the first graph are resolved against it
\* (through get_mut), so that they hold handles of the first graph.
LResolveOrig(k) ==
    /\ ~Loaded
    /\ k \in DOMAIN index
    /\ LET node == index[k]
           p == Payload_resolve(SlotAt(graphs, node.value)[1], index)
       IN  /\ p # SlotAt(graphs, node.value)[1]
           /\ graphs' = WriteSlot(graphs, node.value, Some(p))
           /\ last' = KCall("resolve_first", Some(k), <<>>, None, "occupied",
                            KRes(graphs, index, None, <<>>, FALSE))
    /\ UNCHANGED <<GENERATION, index, promised, given, kind, refVars>>

\* First pass: the graph is serialized, every payload as keys only, and the
\* output is deserialized into a new graph.
LLoad ==
    /\ ~Loaded
    /\ LET ser == BTreeGraph_serialize(graphs, index)
           out == [i \in DOMAIN ser.out |->
                     <<ser.out[i][1], Payload_serialize(ser.out[i][2])>>]
           inp == [i \in DOMAIN out |->
                     <<out[i][1], Payload_deserialize(out[i][2])>>]
           de == BTreeGraph_deserialize(graphs, GENERATION, B, inp)
       IN  /\ ~ser.panic
           /\ graphs' = de.gs
           /\ copy' = de.idx
           /\ GENERATION' = de.counter
           /\ last' = Call("load", B, None, <<>>, out, "none",
                           Res(de.gs, None, <<>>, FALSE))
    /\ resolved' = {}
    /\ UNCHANGED <<index, promised, given, kind, refBy, optRefBy, refMap,
                   optRefMap, threads>>

\* Second pass, one node: its references are resolved against the new graph.
LResolve(k) ==
    /\ Loaded
    /\ k \in DOMAIN copy \ resolved
    /\ LET node == copy[k]
           p == Payload_resolve(SlotAt(graphs, node.value)[1], copy)
       IN  /\ graphs' = WriteSlot(graphs, node.value, Some(p))
           /\ last' = Call("resolve", B, Some(k), <<>>, None, "occupied",
                           Res(graphs, None, <<>>, FALSE))
    /\ resolved' = resolved \cup {k}
    /\ UNCHANGED <<GENERATION, index, promised, given, kind, refBy, optRefBy,
                   refMap, optRefMap, copy, threads>>

NextLoad ==
    \/ \E k \in Keys, bk \in Keys, ks \in SUBSET Keys : LInsert(k, bk, ks)
    \/ \E k \in Keys : LResolveOrig(k)
    \/ LLoad
    \/ \E k \in Keys : LResolve(k)

SpecLoad == InitLoad /\ [][NextLoad]_vars

\* The payload of the node the new graph holds under key k.
Loaded_payload(k) == SlotAt(graphs, copy[k].value)[1]

\* The second pass is over: every node's references have been resolved.
SecondPassDone == Loaded /\ resolved = DOMAIN copy

\* The handle dereferences in the new graph to the value stored under key k.
ResolvedTo(h, k) ==
    /\ h = copy[k]
    /\ ~Graph_borrow(graphs, B, h).panic
    /\ Graph_borrow(graphs, B, h).retV = BTreeGraph_get(graphs, copy, B, k).retV

\* C21 (as claimed): after the second pass every reference whose key the new
\* graph has, a RefBy or an entry of a RefMap, dereferences in the new graph
\* to the value stored under its key.
C21_AllResolved ==
    SecondPassDone =>
        \A n \in DOMAIN copy :
           /\ Loaded_payload(n).by.key \in DOMAIN copy =>
                 ResolvedTo(Loaded_payload(n).by.value, Loaded_payload(n).by.key)
           /\ \A k \in DOMAIN Loaded_payload(n).map :
                 k \in DOMAIN copy => ResolvedTo(Loaded_payload(n).map[k], k)

\* C21 (amended): after the second pass every RefBy whose key the new graph
\* has, and every RefMap entry whose key the new graph has and that is not
\* preceded in its map by a key the new graph lacks, dereferences in the new
\* graph to the value stored under its key; every other reference is still
\* dangling; no reference, at any time after the first pass, holds a handle
\* of the first graph.
C21_TwoPassLoad ==
    /\ Loaded =>
          \A n \in DOMAIN copy :
             /\ Loaded_payload(n).by.value \notin Issued(graphs, A)
             /\ \A k \in DOMAIN Loaded_payload(n).map :
                   Loaded_payload(n).map[k] \notin Issued(graphs, A)
             /\ n \notin resolved =>
                   /\ Loaded_payload(n).by.value = Ref_dangling
                   /\ \A k \in DOMAIN Loaded_payload(n).map :
                         Loaded_payload(n).map[k] = Ref_dangling
    /\ SecondPassDone =>
          \A n \in DOMAIN copy :
             /\ IF Loaded_payload(n).by.key \in DOMAIN copy
                THEN ResolvedTo(Loaded_payload(n).by.value, Loaded_payload(n).by.key)
                ELSE Loaded_payload(n).by.value = Ref_dangling
             /\ \A k \in DOMAIN Loaded_payload(n).map :
                   IF \A j \in DOMAIN Loaded_payload(n).map :
                         j <= k => j \in DOMAIN copy
                   THEN ResolvedTo(Loaded_payload(n).map[k], k)
                   ELSE Loaded_payload(n).map[k] = Ref_dangling

\* Two nodes that refer to each other, resolved in the first graph, have been
\* loaded and resolved: each RefBy dereferences to the other node of the new
\* graph.
C21_Witness ==
    /\ SecondPassDone
    /\ DOMAIN copy = {1, 2}
    /\ \E h \in Issued(graphs, A) :
          SlotAt(graphs, h.value) # None /\ SlotAt(graphs, h.value)[1].by.value \in Issued(graphs, A)
    /\ Loaded_payload(1).by.key = 2 /\ ResolvedTo(Loaded_payload(1).by.value, 2)
    /\ Loaded_payload(2).by.key = 1 /\ ResolvedTo(Loaded_payload(2).by.value, 1)
    /\ DOMAIN Loaded_payload(1).map = {1, 2}
    /\ ResolvedTo(Loaded_payload(1).map[2], 2)

\* ------------------------------------------------- shared and exclusive access
\* Slots the shared keyed graph may allocate in a run.
MaxShareSlots == 2

\* The receiver of each method of the keyed graph, from its signature:
\* the methods that take &mut self ...
SelfMut ==
    {"insert", "promise", "remove", "get_mut", "get_key_value_mut", "create",
     "borrow_mut", "borrow_many_mut", "values_mut", "entry"}
\* ... and the methods that take &self.
SelfShared ==
    {"index", "is_empty", "get_ref", "get_ref_by", "get_entry", "get",
     "get_key_value", "borrow", "iter_ref", "iter_ref_by", "iter", "iter_mut",
     "keys", "values_ref", "values"}
\* The methods whose return type holds &mut V.
YieldsMut ==
    {"get_mut", "get_key_value_mut", "borrow_mut", "borrow_many_mut",
     "iter_mut", "values_mut", "entry"}

\* What the borrow rules let a thread call with the access it has: a &self
\* method through any borrow, a &mut self method through a &mut borrow only.
CanCall(access, op) ==
    \/ op \in SelfShared /\ access \in {"shared", "exclusive"}
    \/ op \in SelfMut /\ access = "exclusive"

\* The references one call hands out, every slot of the index with the same
\* mode; the call panics on an empty slot.
YieldAll(gs, idx, mode) ==
    [refs |-> {<<idx[k].value, mode>> : k \in DOMAIN idx},
     panic |-> \E k \in DOMAIN idx : Ref_try_get_unchecked(gs, idx[k]) = None]

BTreeGraph_iter(gs, idx) == YieldAll(gs, idx, "shared")

BTreeGraph_iter_mut(gs, idx) == YieldAll(gs, idx, "mut")

BTreeGraph_values_mut(gs, idx) == YieldAll(gs, idx, "mut")

\* The references a thread holds after a call: a call through &mut self, or
\* by the holder of the &mut borrow, ends the references it held before.
HeldAfter(th, op, refs) ==
    IF op \in SelfMut \/ th.access = "exclusive" THEN refs
    ELSE th.held \cup refs

ShCall(op, t, key, r) == KCall(op, key, <<>>, Some(t), threads[t].access, r)

InitShare == InitKeyed

\* A thread borrows the graph: &mut while nobody else has a borrow, & while
\* nobody has &mut (the graph is Sync, so & may cross threads).
ShAcquire(t, mode) ==
    /\ threads[t].access = "none"
    /\ mode \in {"shared", "exclusive"}
    /\ \A u \in Threads \ {t} :
          /\ threads[u].access # "exclusive"
          /\ mode = "exclusive" => threads[u].access = "none"
    /\ threads' = [threads EXCEPT ![t].access = mode]
    /\ last' = ShCall("acquire", t, None, KRes(graphs, index, None, <<>>, FALSE))
    /\ UNCHANGED <<GENERATION, graphs, index, promised, given, kind, refBy,
                   optRefBy, refMap, optRefMap, copy, resolved>>

\* The borrow ends, and with it every reference obtained through it.
ShRelease(t) ==
    /\ threads[t].access # "none"
    /\ threads' = [threads EXCEPT ![t] = Idle]
    /\ last' = ShCall("release", t, None, KRes(graphs, index, None, <<>>, FALSE))
    /\ UNCHANGED <<GENERATION, graphs, index, promised, given, kind, refBy,
                   optRefBy, refMap, optRefMap, copy, resolved>>

ShInsert(t, k, v) ==
    /\ CanCall(threads[t].access, "insert")
    /\ Len(graphs[A].nodes) < MaxShareSlots
    /\ LET r == BTreeGraph_insert(graphs, index, A, k, v)
       IN  /\ graphs' = r.gs
           /\ index' = r.idx
           /\ last' = ShCall("insert", t, Some(k), r)
    /\ threads' = [threads EXCEPT ![t].held = HeldAfter(threads[t], "insert", {})]
    /\ UNCHANGED <<GENERATION, promised, given, kind, refBy, optRefBy, refMap,
                   optRefMap, copy, resolved>>

ShRemove(t, k) ==
    /\ CanCall(threads[t].access, "remove")
    /\ k \in DOMAIN index
    /\ LET r == BTreeGraph_remove(graphs, index, A, k)
       IN  /\ graphs' = r.gs
           /\ index' = r.idx
           /\ last' = ShCall("remove", t, Some(k), r)
    /\ threads' = [threads EXCEPT ![t].held = HeldAfter(threads[t], "remove", {})]
    /\ UNCHANGED <<GENERATION, promised, given, kind, refBy, optRefBy, refMap,
                   optRefMap, copy, resolved>>

ShGet(t, k) ==
    /\ CanCall(threads[t].access, "get")
    /\ k \in DOMAIN index
    /\ LET r == BTreeGraph_get(graphs, index, A, k)
       IN  /\ last' = ShCall("get", t, Some(k), r)
           /\ threads' = [threads EXCEPT ![t].held =
                            HeldAfter(threads[t], "get",
                                      {<<index[k].value, "shared">>})]
    /\ UNCHANGED <<GENERATION, graphs, index, promised, given, kind, refBy,
                   optRefBy, refMap, optRefMap, copy, resolved>>

ShGetMut(t, k) ==
    /\ CanCall(threads[t].access, "get_mut")
    /\ k \in DOMAIN index
    /\ LET r == BTreeGraph_get_mut(graphs, index, A, k)
       IN  /\ last' = ShCall("get_mut", t, Some(k), r)
           /\ threads' = [threads EXCEPT ![t].held =
                            HeldAfter(threads[t], "get_mut",
                                      {<<index[k].value, "mut">>})]
    /\ UNCHANGED <<GENERATION, graphs, index, promised, given, kind, refBy,
                   optRefBy, refMap, optRefMap, copy, resolved>>

ShIter(t) ==
    /\ CanCall(threads[t].access, "iter")
    /\ index # EmptyIndex
    /\ LET y == BTreeGraph_iter(graphs, index)
       IN  /\ last' = ShCall("iter", t, None,
                             KRes(graphs, index, None, <<>>, y.panic))
           /\ threads' = [threads EXCEPT ![t].held =
                            HeldAfter(threads[t], "iter", y.refs)]
    /\ UNCHANGED <<GENERATION, graphs, index, promised, given, kind, refBy,
                   optRefBy, refMap, optRefMap, copy, resolved>>

ShIterMut(t) ==
    /\ CanCall(threads[t].access, "iter_mut")
    /\ index # EmptyIndex
    /\ LET y == BTreeGraph_iter_mut(graphs, index)
       IN  /\ last' = ShCall("iter_mut", t, None,
                             KRes(graphs, index, None, <<>>, y.panic))
           /\ threads' = [threads EXCEPT ![t].held =
                            HeldAfter(threads[t], "iter_mut", y.refs)]
    /\ UNCHANGED <<GENERATION, graphs, index, promised, given, kind, refBy,
                   optRefBy, refMap, optRefMap, copy, resolved>>

ShValuesMut(t) ==
    /\ CanCall(threads[t].access, "values_mut")
    /\ index # EmptyIndex
    /\ LET y == BTreeGraph_values_mut(graphs, index)
       IN  /\ last' = ShCall("values_mut", t, None,
                             KRes(graphs, index, None, <<>>, y.panic))
           /\ threads' = [threads EXCEPT ![t].held =
                            HeldAfter(threads[t], "values_mut", y.refs)]
    /\ UNCHANGED <<GENERATION, graphs, index, promised, given, kind, refBy,
                   optRefBy, refMap, optRefMap, copy, resolved>>

\* A thread assigns through a &mut V it holds.
ShWrite(t, a, v) ==
    /\ <<a, "mut">> \in threads[t].held
    /\ SlotAt(graphs, a) # Some(v)
    /\ graphs' = WriteSlot(graphs, a, Some(v))
    /\ last' = ShCall("write", t, None, KRes(graphs', index, None, <<>>, FALSE))
    /\ UNCHANGED <<GENERATION, index, promised, given, kind, refVars>>

ShareSlots == {<<A, i>> : i \in 1..(MaxShareSlots + 1)}

NextShare ==
    \/ \E t \in Threads, mode \in {"shared", "exclusive"} : ShAcquire(t, mode)
    \/ \E t \in Threads : ShRelease(t)
    \/ \E t \in Threads, k \in Keys, v \in Values : ShInsert(t, k, v)
    \/ \E t \in Threads, k \in Keys : ShRemove(t, k)
    \/ \E t \in Threads, k \in Keys : ShGet(t, k)
    \/ \E t \in Threads, k \in Keys : ShGetMut(t, k)
    \/ \E t \in Threads : ShIter(t)
    \/ \E t \in Threads : ShIterMut(t)
    \/ \E t \in Threads : ShValuesMut(t)
    \/ \E t \in Threads, a \in ShareSlots, v \in Values : ShWrite(t, a, v)

SpecShare == InitShare /\ [][NextShare]_vars

\* Two threads hold references to one slot and one of them is a &mut.
Aliased ==
    \E t \in Threads, u \in Threads, a \in ShareSlots :
        /\ t # u
        /\ <<a, "mut">> \in threads[t].held
        /\ \E mode \in {"shared", "mut"} : <<a, mode>> \in threads[u].held

\* C22: every call that mutates the graph or hands out a &mut V was made
\* through an exclusive borrow of the graph, and two threads never hold
\* references to the same slot of which one is a &mut V.
C22_ExclusiveAccess ==
    /\ last.op \in YieldsMut \cup {"insert", "remove"} => last.pre = "exclusive"
    /\ ~Aliased

\* ------------------------------------------- arenas constructed by threads
\* Arenas the threads construct in a run, and slots each may allocate.
MaxArenas == 3
MaxGenSlots == 1

\* In this scenario graphs is the sequence of the arenas constructed so far,
\* in the order their construction ended.
InitGen ==
    /\ GENERATION = GenerationInit
    /\ graphs = <<>>
    /\ index = EmptyIndex
    /\ promised = {}
    /\ given = <<>>
    /\ kind = "btree"
    /\ NoRefs
    /\ last = NoCall

GCall(op, t, n) ==
    Call(op, A, n, <<>>, Some(t), threads[t].pc, Res(<<>>, None, <<>>, FALSE))

\* A thread that starts a constructor (new, with_capacity, a bulk build or a
\* deserialization: each calls Gen::new once) takes its tag.
TGenNew(t) ==
    /\ threads[t].pc = "idle"
    /\ GENERATION < GenerationInit + MaxArenas
    /\ LET g == Gen_new(GENERATION)
       IN  /\ GENERATION' = g.counter
           /\ threads' = [threads EXCEPT ![t].pc = "tagged", ![t].gen = g.gen]
    /\ last' = GCall("gen_new", t, None)
    /\ UNCHANGED <<graphs, index, promised, given, kind, refBy, optRefBy,
                   refMap, optRefMap, copy, resolved>>

\* The constructor ends: the arena holds the tag the thread took and the
\* values of the bulk build, none for new and with_capacity.
TBuild(t, values) ==
    /\ threads[t].pc = "tagged"
    /\ graphs' = Append(graphs, [nodes |-> [i \in DOMAIN values |-> Some(values[i])],
                                 gen |-> threads[t].gen])
    /\ threads' = [threads EXCEPT ![t] = Idle]
    /\ last' = GCall("build", t, Some(Len(graphs) + 1))
    /\ UNCHANGED <<GENERATION, index, promised, given, kind, refBy, optRefBy,
                   refMap, optRefMap, copy, resolved>>

\* A constructed arena is used: insert ...
GInsert(t, n, v) ==
    /\ n \in DOMAIN graphs
    /\ Len(graphs[n].nodes) < MaxGenSlots
    /\ graphs' = Graph_insert(graphs, n, v).gs
    /\ last' = GCall("insert", t, Some(n))
    /\ UNCHANGED <<GENERATION, index, promised, given, kind, refVars>>

\* ... and remove of its first node.
GRemove(t, n) ==
    /\ n \in DOMAIN graphs
    /\ LET node == Ref_new(<<n, 1>>, graphs[n].gen)
       IN  /\ IsSlot(graphs, node.value)
           /\ Occupied(graphs, node)
           /\ graphs' = Graph_remove(graphs, n, node).gs
    /\ last' = GCall("remove", t, Some(n))
    /\ UNCHANGED <<GENERATION, index, promised, given, kind, refVars>>

BuildValues == {<<>>, <<"v1">>}

NextGen ==
    \/ \E t \in Threads : TGenNew(t)
    \/ \E t \in Threads, values \in BuildValues : TBuild(t, values)
    \/ \E t \in Threads, n \in 1..MaxArenas : GInsert(t, n, "v1")
    \/ \E t \in Threads, n \in 1..MaxArenas : GRemove(t, n)

SpecGen == InitGen /\ [][NextGen]_vars

\* The tags in existence: those of the constructed arenas and those taken by
\* the constructors still running, each with its holder.
TagHolders ==
    {<<"arena", n, graphs[n].gen>> : n \in DOMAIN graphs}
      \cup {<<"thread", t, threads[t].gen>> :
              t \in {u \in Threads : threads[u].pc = "tagged"}}

\* C23: every arena, however and by whichever thread it was constructed, has
\* a tag that is not the invalid tag and differs from the tag of every other
\* arena, constructed or under construction; an arena's tag never changes.
C23_GenerationUnique ==
    /\ [](\A x \in TagHolders :
            /\ ~Gen_is_invalid(x[3])
            /\ \A y \in TagHolders \ {x} : ~Gen_eq(x[3], y[3]))
    /\ [][\A n \in DOMAIN graphs : graphs'[n].gen = graphs[n].gen]_vars

\* Two constructors ran at the same time and the one that took its tag last
\* ended first; the arenas have been used since.
C23_Witness ==
    /\ Len(graphs) >= 2
    /\ graphs[1].gen > graphs[2].gen
    /\ graphs[1].nodes = <<None>>
    /\ graphs[2].nodes # <<>>

\* ------------------------------------------------- tag and handle equality
\* The generation tags a program can hold: the invalid one and every value
\* the counter has had.
Tags == 0..GENERATION

\* C24: two tags are equal iff both are non-zero and the same number; two
\* handles are equal iff their tags are equal and they name the same slot; a
\* copy of an issued handle equals the original; the dangling handle equals
\* no handle, neither itself nor its copy.
C24_Equality ==
    /\ \A g1 \in Tags, g2 \in Tags :
          Gen_eq(g1, g2) <=> (g1 # 0 /\ g2 # 0 /\ g1 = g2)
    /\ \A h1 \in Handles(graphs), h2 \in Handles(graphs) :
          Ref_eq(h1, h2) <=>
             (/\ h1.gen # 0
              /\ h2.gen # 0
              /\ h1.gen = h2.gen
              /\ h1.value = h2.value)
    /\ \A h \in AllIssued(graphs) : Ref_eq(Ref_clone(h), h) /\ Ref_eq(h, Ref_clone(h))
    /\ \A h \in Handles(graphs) :
          ~Ref_eq(Ref_dangling, h) /\ ~Ref_eq(h, Ref_dangling)
    /\ ~Ref_eq(Ref_dangling, Ref_dangling)
    /\ ~Ref_eq(Ref_dangling, Ref_clone(Ref_dangling))

\* The arena under test has issued two handles, equal in tag and different in
\* slot, and the other arena one, different in tag.
C24_Witness ==
    /\ Cardinality(Issued(graphs, A)) >= 2
    /\ Cardinality(Issued(graphs, B)) >= 1
    /\ \E h1 \in Issued(graphs, A), h2 \in Issued(graphs, A) :
          Gen_eq(h1.gen, h2.gen) /\ ~Ref_eq(h1, h2)
    /\ last.op # "init"

\* ------------------------------------------- equality and order of RefMaps
\* The RefMaps the program's one is compared with: every key set, with
\* dangling handles or with handles of the graph.
AllRefMaps ==
    {[k \in ks |-> h] : ks \in SUBSET RefKeys, h \in RefHandles}

\* s comes before t in the lexicographic order: they agree up to a position
\* where s has ended and t has not, or where s has the smaller key.
LexLess(s, t) ==
    \E i \in 1..Len(t) :
        /\ \A j \in 1..(i - 1) : j <= Len(s) /\ s[j] = t[j]
        /\ \/ i = Len(s) + 1
           \/ i <= Len(s) /\ s[i] < t[i]

\* C25: the program's RefMap, whatever handles it holds, equals another
\* RefMap iff both have the same keys; cmp is the lexicographic order of the
\* ascending key sequences, a proper prefix first; == holds exactly when cmp
\* is Equal.
C25_RefMapOrder ==
    \A other \in AllRefMaps :
        LET ka == SortedKeys(DOMAIN refMap)
            kb == SortedKeys(DOMAIN other)
            same == DOMAIN refMap = DOMAIN other
            eq == RefMap_eq(refMap, other)
            qe == RefMap_eq(other, refMap)
            cmp == RefMap_cmp(refMap, other)
            pmc == RefMap_cmp(other, refMap)
        IN  /\ eq <=> same
            /\ qe <=> same
            /\ cmp = "Less" <=> LexLess(ka, kb)
            /\ cmp = "Greater" <=> LexLess(kb, ka)
            /\ pmc = "Less" <=> LexLess(kb, ka)
            /\ eq <=> cmp = "Equal"
            /\ qe <=> pmc = "Equal"

\* The RefMap holds a resolved and a dangling handle, and there are RefMaps
\* of the same keys and other handles, a proper prefix of it and a longer map
\* that is smaller.
C25_Witness ==
    /\ DOMAIN refMap = {2, 3}
    /\ ~Ref_is_invalid(refMap[2])
    /\ Ref_is_invalid(refMap[3])
    /\ last.op = "RefMap::resolve"
    /\ \E other \in AllRefMaps : DOMAIN other = DOMAIN refMap /\ other # refMap
    /\ \E other \in AllRefMaps : RefMap_cmp(other, refMap) = "Less" /\ DOMAIN other = {2}
    /\ \E other \in AllRefMaps :
          RefMap_cmp(other, refMap) = "Less" /\ DOMAIN other = {1, 2, 3}

\* --------------------------------------------------- entry().or_insert_with
\* C26: entry(key).or_insert_with(default) on a key that holds a value
\* returns that value, does not call default, allocates no slot and leaves
\* every slot and every handle of the index as it was; on an absent key it
\* calls default once, puts its result in a new slot registered under the key
\* and returns it, all other slots and entries unchanged; in both cases
\* get(key) afterwards returns the returned value.
C26_OrInsertWith ==
    [][last'.op = "k_or_insert_with" /\ last'.pre \in {"occupied", "absent"} =>
         LET k == last'.key[1]
             n == Len(graphs[A].nodes)
         IN  /\ ~last'.panic
             /\ Keyed_get(graphs', index', k).retV = last'.retV
             /\ ~Keyed_get(graphs', index', k).panic
             /\ last'.pre = "occupied" =>
                   /\ last'.retV = SlotAt(graphs, index[k].value)
                   /\ last'.val = None
                   /\ graphs' = graphs
                   /\ index' = index
             /\ last'.pre = "absent" =>
                   /\ last'.val # None
                   /\ last'.retV = last'.val
                   /\ Len(graphs'[A].nodes) = n + 1
                   /\ SubSeq(graphs'[A].nodes, 1, n) = graphs[A].nodes
                   /\ graphs'[A].nodes[n + 1] = last'.val
                   /\ graphs'[B] = graphs[B]
                   /\ index'[k] = Ref_new(<<A, n + 1>>, graphs[A].gen)
                   /\ DOMAIN index' = DOMAIN index \cup {k}
                   /\ \A j \in DOMAIN index : index'[j] = index[j]
    ]_vars

\* or_insert_with has just returned the value of a key that had one, in a
\* graph with another key, whose entry was made by or_insert_with too.
C26_Witness ==
    /\ last.op = "k_or_insert_with"
    /\ last.pre = "occupied"
    /\ last.retV = Some("v2")
    /\ DOMAIN index = {1, 2}
    /\ Len(graphs[A].nodes) = 2

\* ------------------------------------------------------- ordered iteration
\* The keys of the index, ascending, up to n of them.
AscendingUpTo(n) == SubSeq(SortedKeys(DOMAIN index), 1, n)

\* The keys of the index promised and not yet created.
PromisedKeys == {k \in DOMAIN index : <<index[k], Some(k)>> \in promised}

\* The value a borrow_mut has just written through the handle of a key is
\* the value the walk yields for that key.
YieldsLastWritten(items) ==
    last.op = "borrow_mut" /\ ~last.panic /\ last.val # None =>
        \A i \in DOMAIN items :
            index[items[i][1]] = last.hs[1] => items[i][2] = last.val[1]

\* C27 (as claimed): keys and iter_ref, and iter, values and their _mut
\* variants, visit every key of the index once, in ascending order, and the
\* value yielded for a key is the current content of its slot.
C27_OrderedIteration ==
    LET it == BTreeGraph_iter_items(graphs, index)
        n == Cardinality(DOMAIN index)
    IN  /\ BTreeGraph_keys(index) = AscendingUpTo(n)
        /\ BTreeGraph_iter_ref(index) =
              [i \in 1..n |-> <<AscendingUpTo(n)[i], index[AscendingUpTo(n)[i]]>>]
        /\ ~it.panic
        /\ it.items =
              [i \in 1..n |-> <<AscendingUpTo(n)[i],
                                SlotAt(graphs, index[AscendingUpTo(n)[i]].value)[1]>>]
        /\ BTreeGraph_values_items(graphs, index).items =
              [i \in 1..n |-> SlotAt(graphs, index[AscendingUpTo(n)[i]].value)[1]]
        /\ YieldsLastWritten(it.items)

\* C27 (amended): keys and iter_ref visit every key of the index once, in
\* ascending order; iter, values and their _mut variants do so too, yielding
\* the current content of each slot, when no key of the index is promised and
\* not yet created; otherwise they yield the keys below the smallest such key
\* and panic there.
C27_OrderedUnlessPromised ==
    LET it == BTreeGraph_iter_items(graphs, index)
        n == Cardinality(DOMAIN index)
        m == IF PromisedKeys = {} THEN n
             ELSE Cardinality({k \in DOMAIN index :
                                  \A p \in PromisedKeys : k < p})
    IN  /\ BTreeGraph_keys(index) = AscendingUpTo(n)
        /\ BTreeGraph_iter_ref(index) =
              [i \in 1..n |-> <<AscendingUpTo(n)[i], index[AscendingUpTo(n)[i]]>>]
        /\ it.panic <=> PromisedKeys # {}
        /\ BTreeGraph_values_items(graphs, index).panic <=> PromisedKeys # {}
        /\ it.items =
              [i \in 1..m |-> <<AscendingUpTo(m)[i],
                                SlotAt(graphs, index[AscendingUpTo(m)[i]].value)[1]>>]
        /\ BTreeGraph_values_items(graphs, index).items =
              [i \in 1..m |-> SlotAt(graphs, index[AscendingUpTo(m)[i]].value)[1]]
        /\ YieldsLastWritten(it.items)

\* Key 2 was inserted before key 1 and the value of key 1 has just been
\* overwritten through borrow_mut: the walk yields key 1 first, with the new
\* value.
C27_Witness ==
    /\ last.op = "borrow_mut" /\ ~last.panic /\ last.val = Some("v2")
    /\ last.retV = Some("v1")
    /\ DOMAIN index = {1, 2}
    /\ index[2].value = <<A, 1>>
    /\ index[1] = last.hs[1]
    /\ BTreeGraph_iter_items(graphs, index).items[1] = <<1, "v2">>
    /\ Len(BTreeGraph_iter_items(graphs, index).items) = 2

\* ------------------------------------------------------ append-only storage
\* The insert and promise calls the arena of the keyed graph received in a
\* call: one for insert and promise by key, one for or_insert_with on an
\* absent key, one per pair for a bulk build, none for any other method.
AllocsOf(call) ==
    IF call.op \in {"k_insert", "k_promise"} THEN 1
    ELSE IF call.op = "k_or_insert_with" /\ call.pre = "absent" THEN 1
    ELSE IF call.op = "k_from_iter" THEN Len(call.val)
    ELSE 0

\* C28: a call adds to an arena as many slots as it makes insert and promise
\* calls on it, so the number of slots is the number of those calls so far
\* and never decreases, whatever was removed or overwritten; the handle an
\* insert or promise returns is a handle of the arena that differs from every
\* handle the arena had issued before.
C28_AppendOnly ==
    [][/\ Len(graphs'[A].nodes) = Len(graphs[A].nodes) + AllocsOf(last')
       /\ Len(graphs'[A].nodes) >= Len(graphs[A].nodes)
       /\ Len(graphs'[B].nodes) = Len(graphs[B].nodes)
       /\ last'.op \in {"k_insert", "k_promise"} /\ last'.retH # None =>
             /\ last'.retH[1] \in Issued(graphs', A)
             /\ \A h \in Issued(graphs, A) : ~Ref_eq(h, last'.retH[1])
    ]_vars

\* After removals or overwrites have cleared the first two slots, an insert
\* has taken a third slot.
C28_Witness ==
    /\ last.op = "k_insert" /\ ~last.panic
    /\ Len(graphs[A].nodes) = 3
    /\ graphs[A].nodes[1] = None
    /\ graphs[A].nodes[2] = None
    /\ last.retH = Some(Ref_new(<<A, 3>>, graphs[A].gen))
    /\ promised = {}

\* ------------------------------------------ the two keyed graphs in step
\* A BTreeGraph (arena A and index) and a HashGraph (arena B and copy) receive
\* the same calls.  Slots each may allocate in a run:
MaxPairSlots == 2

\* The handle of the other graph that names the slot of the same position.
MirrorRef(h, gs) ==
    IF Ref_is_invalid(h) THEN h
    ELSE LET o == IF h.value[1] = A THEN B ELSE A
         IN  Ref_new(<<o, h.value[2]>>, gs[o].gen)

MirrorBatch(hs, gs) == [i \in DOMAIN hs |-> MirrorRef(hs[i], gs)]

InitPair == InitKeyed

\* A call on both graphs: the BTreeGraph's result is recorded.
PStep(op, key, hs, val, rb, rh) ==
    /\ graphs' = rh.gs
    /\ index' = rb.idx
    /\ copy' = rh.idx
    /\ last' = KCall(op, key, hs, val,
                     IF key = None THEN SlotState(graphs, promised, hs[1])
                     ELSE KeyState(graphs, index, promised, key[1]),
                     rb)
    /\ UNCHANGED <<GENERATION, given, kind, refBy, optRefBy, refMap, optRefMap,
                   resolved, threads>>

PInsert(k, v) ==
    /\ Len(graphs[A].nodes) < MaxPairSlots
    /\ LET rb == BTreeGraph_insert(graphs, index, A, k, v)
           rh == HashGraph_insert(rb.gs, copy, B, k, v)
       IN  PStep("k_insert", Some(k), <<>>, Some(v), rb, rh)
    /\ UNCHANGED promised

PPromise(k) ==
    /\ Len(graphs[A].nodes) < MaxPairSlots
    /\ LET rb == BTreeGraph_promise(graphs, index, A, k)
           rh == HashGraph_promise(rb.gs, copy, B, k)
       IN  /\ PStep("k_promise", Some(k), <<>>, None, rb, rh)
           /\ promised' = promised \cup
                 {<<IF rb.retH # None THEN rb.retH[1] ELSE rb.idx[k], Some(k)>>}

PCreate(h, v) ==
    /\ h \in Issued(graphs, A)
    /\ LET rb == BTreeGraph_create(graphs, index, A, h, v)
           rh == HashGraph_create(rb.gs, copy, B, MirrorRef(h, graphs), v)
       IN  /\ PStep("create", None, <<h>>, Some(v), rb, rh)
           /\ promised' = IF rb.panic THEN promised
                          ELSE {p \in promised : p[1] # h}

PRemove(k) ==
    /\ LET rb == BTreeGraph_remove(graphs, index, A, k)
           rh == HashGraph_remove(rb.gs, copy, B, k)
       IN  PStep("k_remove", Some(k), <<>>, None, rb, rh)
    /\ UNCHANGED promised

POrInsertWith(k, v) ==
    /\ k \in DOMAIN index \/ Len(graphs[A].nodes) < MaxPairSlots
    /\ LET rb == BTreeGraph_or_insert_with(graphs, index, A, k, v)
           rh == HashGraph_or_insert_with(rb.gs, copy, B, k, v)
       IN  PStep("k_or_insert_with", Some(k), <<>>,
                 IF k \in DOMAIN index THEN None ELSE Some(v), rb, rh)
    /\ UNCHANGED promised

NextPair ==
    \/ \E k \in Keys, v \in Values : PInsert(k, v)
    \/ \E k \in Keys : PPromise(k)
    \/ \E h \in AllIssued(graphs), v \in Values : PCreate(h, v)
    \/ \E k \in Keys : PRemove(k)
    \/ \E k \in Keys, v \in Values : POrInsertWith(k, v)

SpecPair == InitPair /\ [][NextPair]_vars

\* The two graphs are in the same state: the same slots, the same keys, and
\* each key names the slot of the same position.
Corr(gs, ib, ih) ==
    /\ gs[A].nodes = gs[B].nodes
    /\ DOMAIN ib = DOMAIN ih
    /\ \A k \in DOMAIN ib : ih[k] = MirrorRef(ib[k], gs)

\* The two calls fail together or return the same, and leave the two graphs
\* in the same state.
SameOutcome(rb, rh) ==
    /\ rb.panic = rh.panic
    /\ rb.retV = rh.retV
    /\ rb.retH = None <=> rh.retH = None
    /\ rb.retH # None => rh.retH[1] = MirrorRef(rb.retH[1], rh.gs)
    /\ Corr(rh.gs, rb.idx, rh.idx)

PairBatches ==
    UNION {[1..n -> Handles(graphs)] : n \in 0..2}

\* After the same calls the two graphs are in the same state, and every next
\* call of insert, promise, create, remove, get, get_ref, or_insert_with,
\* borrow and borrow_many_mut has the same outcome on both.
SameResults ==
    /\ Corr(graphs, index, copy)
    /\ \A k \in Keys :
          /\ SameOutcome(BTreeGraph_promise(graphs, index, A, k),
                         HashGraph_promise(BTreeGraph_promise(graphs, index, A, k).gs,
                                           copy, B, k))
          /\ SameOutcome(BTreeGraph_remove(graphs, index, A, k),
                         HashGraph_remove(BTreeGraph_remove(graphs, index, A, k).gs,
                                          copy, B, k))
          /\ SameOutcome(BTreeGraph_get(graphs, index, A, k),
                         HashGraph_get(graphs, copy, B, k))
          /\ BTreeGraph_get_ref(index, k) = None <=> HashGraph_get_ref(copy, k) = None
          /\ BTreeGraph_get_ref(index, k) # None =>
                HashGraph_get_ref(copy, k)[1] =
                   MirrorRef(BTreeGraph_get_ref(index, k)[1], graphs)
          /\ \A v \in Values :
                /\ SameOutcome(BTreeGraph_insert(graphs, index, A, k, v),
                               HashGraph_insert(BTreeGraph_insert(graphs, index, A, k, v).gs,
                                                copy, B, k, v))
                /\ SameOutcome(BTreeGraph_or_insert_with(graphs, index, A, k, v),
                               HashGraph_or_insert_with(
                                   BTreeGraph_or_insert_with(graphs, index, A, k, v).gs,
                                   copy, B, k, v))
    /\ \A h \in Handles(graphs) :
          /\ SameOutcome(BTreeGraph_borrow(graphs, index, A, h),
                         HashGraph_borrow(graphs, copy, B, MirrorRef(h, graphs)))
          /\ \A v \in Values :
                SameOutcome(BTreeGraph_create(graphs, index, A, h, v),
                            HashGraph_create(BTreeGraph_create(graphs, index, A, h, v).gs,
                                             copy, B, MirrorRef(h, graphs), v))
    /\ \A hs \in PairBatches :
          SameOutcome(BTreeGraph_borrow_many_mut(graphs, index, A, hs),
                      HashGraph_borrow_many_mut(graphs, copy, B, MirrorBatch(hs, graphs)))

\* C29: the HashGraph and the BTreeGraph return the same results and fail on
\* the same calls of insert, promise, create, remove, get, get_ref,
\* entry().or_insert_with, borrow and borrow_many_mut, and both are indexes
\* that RefBy / RefMap can be resolved against.
C29_VariantEquivalence ==
    /\ SameResults
    /\ {"BTreeGraph", "HashGraph"} \subseteq IndexBy_impls

\* ---------------------------------------- bulk build and sequential insert
\* insert(key, value) called for each pair in order.
RECURSIVE InsertEach(_, _, _, _)
InsertEach(gs, idx, a, pairs) ==
    IF pairs = <<>> THEN [gs |-> gs, idx |-> idx]
    ELSE LET st == InsertEach(gs, idx, a, SubSeq(pairs, 1, Len(pairs) - 1))
             r == BTreeGraph_insert(st.gs, st.idx, a, pairs[Len(pairs)][1],
                                    pairs[Len(pairs)][2])
         IN  [gs |-> r.gs, idx |-> r.idx]

\* C30: a graph built from a sequence of pairs is in the state that
\* insert(key, value) for each pair in order gives on a fresh graph: the same
\* keys, each with the handle and the value of its last pair, and the same
\* slots, the slot of an overwritten earlier value cleared.
C30_BulkEqualsSequential ==
    last.op = "k_from_iter" =>
        LET fresh == [graphs EXCEPT ![A].nodes = <<>>]
            seq == InsertEach(fresh, EmptyIndex, A, last.val)
        IN  /\ DOMAIN index = DOMAIN seq.idx
            /\ \A k \in DOMAIN index :
                  /\ index[k] = seq.idx[k]
                  /\ SlotAt(graphs, index[k].value) = SlotAt(seq.gs, seq.idx[k].value)
            /\ graphs[A].nodes = seq.gs[A].nodes

\* ------------------------------------------------ resolution is idempotent
\* C31: a RefBy whose key the index has, and a RefMap all of whose keys the
\* index has, resolved twice against the index: both resolutions return Ok
\* and the second leaves the handles of the first; a resolve that follows an
\* Ok resolve of the same object changes nothing; the RefBy that get_ref_by
\* returns is left as it is by a resolve against the graph.
C31_ResolveIdempotent ==
    /\ [](/\ refBy # None /\ refBy[1].key \in DOMAIN index =>
               LET r1 == RefBy_resolve(refBy[1], index)
                   r2 == RefBy_resolve(r1.self, index)
               IN  /\ r1.ret = Ok
                   /\ r2.ret = Ok
                   /\ r2.self = r1.self
                   /\ r1.self.value = index[refBy[1].key]
          /\ refMap # EmptyIndex /\ DOMAIN refMap \subseteq DOMAIN index =>
               LET r1 == RefMap_resolve(refMap, index)
                   r2 == RefMap_resolve(r1.self, index)
               IN  /\ r1.ret = Ok
                   /\ r2.ret = Ok
                   /\ r2.self = r1.self
                   /\ \A k \in DOMAIN refMap : r1.self[k] = index[k]
          /\ \A k \in DOMAIN index :
               LET by == BTreeGraph_get_ref_by(index, k)[1]
               IN  RefBy_resolve(by, index) = [self |-> by, ret |-> Ok])
    /\ [][/\ last.op = "RefBy::resolve" /\ last.retV = Ok
             /\ last'.op = "RefBy::resolve"
               => last'.retV = Ok /\ refBy' = refBy
          /\ last.op = "RefMap::resolve" /\ last.retV = Ok
             /\ last'.op = "RefMap::resolve"
               => last'.retV = Ok /\ refMap' = refMap
          /\ last.op = "get_ref_by" /\ last'.op = "RefBy::resolve"
               => last'.retV = Ok /\ refBy' = refBy]_vars

\* A RefBy built dangling has been resolved against a graph of two nodes and
\* holds the handle of the second.
C31_Witness ==
    /\ last.op = "RefBy::resolve" /\ last.retV = Ok
    /\ refBy # None
    /\ DOMAIN index = {1, 2}
    /\ refBy[1].key = 2
    /\ refBy[1].value = index[2]
    /\ ~Ref_is_invalid(refBy[1].value)

\* ------------------------------------------------------------ stale handles
\* The handles of the keyed graph whose slot a keyed overwrite or a keyed
\* remove has cleared.
Stale == {h \in Issued(graphs, A) : SlotState(graphs, promised, h) = "cleared"}

\* The step is a create(h, v) that succeeded.
Refills(h) == last'.op = "create" /\ last'.hs = <<h>> /\ ~last'.panic

\* C32 (as claimed): whatever is called next, the slot of a stale handle is
\* empty afterwards and a borrow of the handle fails.
C32_StaleForever ==
    [][\A h \in Stale :
          /\ SlotAt(graphs', h.value) = None
          /\ BTreeGraph_borrow(graphs', index', A, h).panic]_vars

\* C32 (amended): the slot of a stale handle is empty and a borrow of the
\* handle fails after every call but a create on that handle, which succeeds
\* and puts its value in the slot; no key of the index names the slot.
C32_StaleUnlessCreated ==
    [][\A h \in Stale :
          /\ \A k \in DOMAIN index' : index'[k] # h
          /\ IF Refills(h)
             THEN /\ SlotAt(graphs', h.value) = last'.val
                  /\ BTreeGraph_borrow(graphs', index', A, h).retV = last'.val
             ELSE /\ SlotAt(graphs', h.value) = None
                  /\ BTreeGraph_borrow(graphs', index', A, h).panic]_vars

\* The first handle went stale, two more slots were taken since, and a borrow
\* of the first handle has just failed on its empty slot.
C32_Witness ==
    /\ last.op = "borrow" /\ last.panic /\ last.pre = "cleared"
    /\ last.hs = <<Ref_new(<<A, 1>>, graphs[A].gen)>>
    /\ Len(graphs[A].nodes) = 3
    /\ DOMAIN index = {1, 2}

\* ------------------------------------------------------ orphaned live nodes
\* The keys of the index whose handle names the slot.
KeysOf(addr) == {k \in DOMAIN index : index[k].value = addr}

\* C33: every occupied slot of the keyed graph's arena is named by the handle
\* of exactly one key of the index, and get(key) returns its content.
C33_NoOrphans ==
    \A i \in 1..Len(graphs[A].nodes) :
        graphs[A].nodes[i] # None =>
            /\ Cardinality(KeysOf(<<A, i>>)) = 1
            /\ \A k \in KeysOf(<<A, i>>) :
                  BTreeGraph_get(graphs, index, A, k).retV = graphs[A].nodes[i]

\* ------------------------------------------------- failed arena operations
\* C34: a create, a remove or a borrow_many_mut that fails leaves every slot
\* of every arena as it was; in particular the slot of a create that failed
\* because it was occupied still holds the value it held.
C34_FailedArenaOpUnchanged ==
    [][last'.panic /\ last'.op \in {"create", "remove", "borrow_many_mut"} =>
          /\ graphs' = graphs
          /\ last'.op = "create" /\ last'.pre = "occupied" =>
                SlotAt(graphs', last'.hs[1].value) = SlotAt(graphs, last'.hs[1].value)
      ]_vars

\* ------------------------------------------------- failed keyed operations
\* C35: a keyed insert, promise or remove that panics leaves the index with
\* the same keys and the same handles and the arena with the same slots, none
\* allocated and none cleared.
C35_FailedKeyedOpUnchanged ==
    [][last'.panic /\ last'.op \in {"k_insert", "k_promise", "k_remove"} =>
          /\ index' = index
          /\ Len(graphs'[A].nodes) = Len(graphs[A].nodes)
          /\ graphs' = graphs
      ]_vars

\* -------------------------------------------------------- index injectivity
\* The keys of the index, other than j, whose handle names the slot at addr.
OtherKeysOf(addr, j) == {k \in DOMAIN index \ {j} : index[k].value = addr}

\* The entry and the slot of key j are the same before and after the step.
SameUnder(j) ==
    /\ j \in DOMAIN index'
    /\ index'[j] = index[j]
    /\ SlotAt(graphs', index'[j].value) = SlotAt(graphs, index[j].value)

\* C36: two different keys of the index never name the same slot, and a call
\* made under one key, or through the handle of one key, leaves the entry and
\* the value of every other key as they were.
C36_IndexInjective ==
    /\ [](\A j \in DOMAIN index : OtherKeysOf(index[j].value, j) = {})
    /\ [][/\ last'.op \in {"k_insert", "k_promise", "k_remove",
                           "k_or_insert_with", "k_get"} =>
                \A j \in DOMAIN index \ {last'.key[1]} : SameUnder(j)
          /\ last'.op \in {"create", "borrow", "borrow_mut"} =>
                \A j \in DOMAIN index :
                    OtherKeysOf(last'.hs[1].value, j) # {} => SameUnder(j)
         ]_vars

\* C36 witness: the value under key 1 was overwritten through its handle
\* while key 2 holds another slot with its own value.
C36_Witness ==
    /\ last.op = "borrow_mut" /\ ~last.panic
    /\ DOMAIN index = {1, 2}
    /\ last.hs = <<index[1]>>
    /\ last.val = Some("v2")
    /\ index[1].value # index[2].value
    /\ SlotAt(graphs, index[1].value) = Some("v2")
    /\ SlotAt(graphs, index[2].value) = Some("v1")

\* ----------------------------------------------------------- arena iteration
\* Iterator::flatten over Option<T> items: a None yields nothing and a
\* Some(v) yields v, in the order of the underlying iterator.
RECURSIVE Flatten(_)
Flatten(opts) ==
    IF opts = <<>> THEN <<>> ELSE Head(opts) \o Flatten(Tail(opts))

\* Variant: the slots are visited from the newest to the oldest.
Graph_iter_mut_Reversed(gs, a) ==
    LET n == Len(gs[a].nodes)
    IN  Res(gs, None, Flatten([i \in 1..n |-> gs[a].nodes[n + 1 - i]]), FALSE)

\* retV is the sequence of the items the iterator yields.
Graph_iter_mut(gs, a) == Res(gs, None, Flatten(gs[a].nodes), FALSE)

\* into_iter takes the graph by value: its slots move into the iterator.
Graph_into_iter(gs, a) ==
    Res([gs EXCEPT ![a].nodes = <<>>], None, Flatten(gs[a].nodes), FALSE)

\* The graph has been moved into an iterator: no call can name it any more.
Consumed == last.op = "into_iter"

ItInsert(v) == ~Consumed /\ Insert(A, v)

ItPromise == ~Consumed /\ Promise(A)

ItCreate(h, v) == ~Consumed /\ Create(A, h, v)

ItRemove(h) == ~Consumed /\ Remove(A, h)

ItBorrowMut(h, w) == ~Consumed /\ BorrowMut(A, h, w)

IterMut ==
    /\ ~Consumed
    /\ LET r == Graph_iter_mut(graphs, A)
       IN  /\ graphs' = r.gs
           /\ last' = Call("iter_mut", A, None, <<>>, None, "none", r)
    /\ UNCHANGED <<GENERATION, index, promised, given, kind, refVars>>

IntoIter ==
    /\ ~Consumed
    /\ LET r == Graph_into_iter(graphs, A)
       IN  /\ graphs' = r.gs
           /\ last' = Call("into_iter", A, None, <<>>, None, "none", r)
    /\ UNCHANGED <<GENERATION, index, promised, given, kind, refVars>>

NextIter ==
    \/ \E v \in Values : ItInsert(v)
    \/ ItPromise
    \/ \E h \in Issued(graphs, A), v \in Values : ItCreate(h, v)
    \/ \E h \in Issued(graphs, A) : ItRemove(h)
    \/ \E h \in Issued(graphs, A), v \in Values : ItBorrowMut(h, Some(v))
    \/ IterMut
    \/ IntoIter

SpecIter == InitArena /\ [][NextIter]_vars

\* The positions of arena A's occupied slots.
OccupiedAt(gs) == {i \in 1..Len(gs[A].nodes) : gs[A].nodes[i] # None}

\* The place of position i among the occupied positions, oldest first.
RankOf(gs, i) == Cardinality({j \in OccupiedAt(gs) : j <= i})

\* items holds the value of every occupied slot of gs, once, at the place of
\* its position among the occupied ones, and nothing else.
YieldsOccupied(items, gs) ==
    /\ Len(items) = Cardinality(OccupiedAt(gs))
    /\ \A i \in OccupiedAt(gs) : items[RankOf(gs, i)] = gs[A].nodes[i][1]

\* C37: iter_mut and into_iter of the arena yield the values of the occupied
\* slots, each once, in allocation order; an empty slot, removed or promised,
\* yields nothing, and after a create has filled a slot again an iteration
\* yields its value at the place of the slot's position.
C37_ArenaIteration ==
    [][/\ last'.op \in {"iter_mut", "into_iter"} =>
             YieldsOccupied(last'.retV, graphs)
       /\ last'.op = "iter_mut" => graphs' = graphs
       /\ last'.op = "create" /\ ~last'.panic =>
             LET i == last'.hs[1].value[2]
                 items == Graph_iter_mut(graphs', A).retV
             IN  /\ items[RankOf(graphs', i)] = last'.val[1]
                 /\ YieldsOccupied(items, graphs')
      ]_vars

\* C37 witness: an iteration over an arena whose first slot is occupied and
\* whose second slot is promised and still empty yields the first slot's value
\* alone.
C37_Witness ==
    /\ last.op = "iter_mut"
    /\ Len(graphs[A].nodes) = 2
    /\ graphs[A].nodes[1] = Some("v2")
    /\ graphs[A].nodes[2] = None
    /\ \E p \in promised : p[1].value = <<A, 2>>
    /\ last.retV = <<"v2">>

====
